---- MODULE Spec2Model ----
(***************************************************************************)
(* Model of package export (vdobler/export): the path compiler             *)
(* (buildSteps), the path executor (access, retrieve) and the Extractor    *)
(* with its Columns (NewExtractor, Bind, bindSOM), as found in             *)
(* src/export.go.  Go types are modelled by a table of type descriptors    *)
(* that answers the reflect queries the code makes; Go values are records  *)
(* tagged with their type.  A column spec, which the code splits, is a    *)
(* sequence of one-character strings; names are strings.                   *)
(***************************************************************************)
EXTENDS Integers, Sequences, FiniteSets, TLC

(* ----------------------------------------------------------------------- *)
(* Bounds of the model.                                                    *)

\* Largest number of column specs passed to one NewExtractor call.
MaxCols == 2

\* Largest length of a slice handed to NewExtractor or Bind.
MaxLen == 2

\* Largest number of columns of one Extractor the caller renames.
MaxRenames == 1

\* Largest number of elements of the collections that the caller has
\* assigned anew.
MaxSets == 1

(* ----------------------------------------------------------------------- *)
(* Strings.                                                                *)

\* The characters of each column spec the model uses.
chars(str) ==
  CASE str = "A" -> <<"A">>
    [] str = "APP" -> <<"A", "P", "P">>
    [] str = "B" -> <<"B">>
    [] str = "B.CP" -> <<"B", ".", "C", "P">>
    [] str = "B.F.G" -> <<"B", ".", "F", ".", "G">>
    [] str = "B.FE.G" -> <<"B", ".", "F", "E", ".", "G">>
    [] str = "B.Fxyz.E" -> <<"B", ".", "F", "x", "y", "z", ".", "E">>
    [] str = "A.X" -> <<"A", ".", "X">>
    [] str = "" -> <<>>
    [] str = "I" -> <<"I">>
    [] str = "E" -> <<"E">>
    [] str = "BME" -> <<"B", "M", "E">>
    [] str = "EME" -> <<"E", "M", "E">>
    [] str = "ExtraArg" -> <<"E", "x", "t", "r", "a", "A", "r", "g">>
    [] str = "WrongReturn" -> <<"W", "r", "o", "n", "g", "R", "e", "t", "u", "r", "n">>
    [] str = "D.Round" -> <<"D", ".", "R", "o", "u", "n", "d">>
    [] str = "Flt" -> <<"F", "l", "t">>
    [] str = "IntP" -> <<"I", "n", "t", "P">>
    [] str = "Method2" -> <<"M", "e", "t", "h", "o", "d", "2">>
    [] str = "OtherP.Unix" -> <<"O", "t", "h", "e", "r", "P", ".", "U", "n", "i", "x">>
    [] str = "IntP.X" -> <<"I", "n", "t", "P", ".", "X">>
    [] str = "E.M" -> <<"E", ".", "M">>
    [] str = "E.N" -> <<"E", ".", "N">>
    [] str = "E.N.G" -> <<"E", ".", "N", ".", "G">>
    [] str = "G" -> <<"G">>
    [] str = "B.F().E" -> <<"B", ".", "F", "(", ")", ".", "E">>
    [] str = "BM()" -> <<"B", "M", "(", ")">>
    [] str = "N" -> <<"N">>
    [] str = "D" -> <<"D">>
    [] str = "Type" -> <<"T", "y", "p", "e">>
    [] str = "MayFail" -> <<"M", "a", "y", "F", "a", "i", "l">>
    [] str = "E.F" -> <<"E", ".", "F">>
    [] str = "OtherP.Start" ->
         <<"O", "t", "h", "e", "r", "P", ".", "S", "t", "a", "r", "t">>

\* The string of a sequence of characters.
RECURSIVE string(_)
string(cs) == IF cs = <<>> THEN "" ELSE Head(cs) \o string(Tail(cs))

\* strings.Split(s, sep) of the characters s for a one-character separator.
RECURSIVE Split(_, _)
Split(s, sep) ==
  IF \E i \in 1..Len(s) : s[i] = sep
  THEN LET i == CHOOSE k \in 1..Len(s) :
                  s[k] = sep /\ \A j \in 1..(k-1) : s[j] # sep
       IN  <<string(SubSeq(s, 1, i-1))>> \o Split(SubSeq(s, i+1, Len(s)), sep)
  ELSE <<string(s)>>

(* ----------------------------------------------------------------------- *)
(* Go types: what package reflect reports about them.                      *)

\* A struct field, as reflect.Type.Field reports it.
Fld(name, type) == [Name |-> name, Type |-> type]

\* A method of a type: NumIn counts the receiver, Out lists the results.
Mth(name, numIn, out) == [Name |-> name, NumIn |-> numIn, Out |-> out]

\* A type without fields and methods.
Plain(kind) == [Kind |-> kind, Elem |-> "", Fields |-> <<>>, Methods |-> <<>>]

\* A pointer or slice type.
Of(kind, elem) == [Kind |-> kind, Elem |-> elem, Fields |-> <<>>, Methods |-> <<>>]

\* A struct type.
Struct(fields, methods) ==
  [Kind |-> "Struct", Elem |-> "", Fields |-> fields, Methods |-> methods]

\* type S of the tests.
typeS ==
  Struct(<<Fld("B", "bool"), Fld("I", "int"), Fld("F", "float64"),
           Fld("S", "string"), Fld("T", "time.Time"), Fld("E", "error"),
           Fld("N", "Named"), Fld("D", "time.Duration"),
           Fld("C", "complex64")>>,
         <<Mth("BM", 1, <<"bool">>), Mth("BME", 1, <<"bool", "error">>),
           Mth("CM", 1, <<"complex64">>),
           Mth("CME", 1, <<"complex64", "error">>),
           Mth("DM", 1, <<"time.Duration">>),
           Mth("DME", 1, <<"time.Duration", "error">>),
           Mth("EM", 1, <<"error">>), Mth("EME", 1, <<"error", "error">>),
           Mth("ExtraArg", 2, <<"int">>),
           Mth("FM", 1, <<"float64">>), Mth("FME", 1, <<"float64", "error">>),
           Mth("IM", 1, <<"int">>), Mth("IME", 1, <<"int", "error">>),
           Mth("NM", 1, <<"Named32">>),
           Mth("SM", 1, <<"string">>), Mth("SME", 1, <<"string", "error">>),
           Mth("TM", 1, <<"time.Time">>),
           Mth("TME", 1, <<"time.Time", "error">>),
           Mth("WrongReturn", 1, <<"int", "int">>)>>)

\* type T of the tests.
typeT ==
  Struct(<<Fld("A", "int"), Fld("AP", "*int"), Fld("APP", "**int"),
           Fld("B", "TT")>>,
         <<>>)

\* type TT of the tests.
typeTT ==
  Struct(<<Fld("C", "float64"), Fld("CP", "*float64")>>,
         <<Mth("D", 1, <<"int">>), Mth("F", 1, <<"TTT">>),
           Mth("FE", 1, <<"TTT", "error">>),
           Mth("Fxyz", 1, <<"TTT", "bool">>)>>)

\* type TTT of the tests.
typeTTT ==
  Struct(<<Fld("E", "string")>>,
         <<Mth("G", 1, <<"int">>), Mth("GTT", 1, <<"TT">>)>>)

\* type Some of the example.
typeSome ==
  Struct(<<Fld("Flt", "float64"), Fld("Str", "string"), Fld("IntP", "*int"),
           Fld("Other", "Other"), Fld("OtherP", "*Other")>>,
         <<Mth("Method1", 1, <<"int">>),
           Mth("Method2", 1, <<"bool", "error">>)>>)

\* type Other of the example.
typeOther ==
  Struct(<<Fld("Start", "time.Time")>>, <<Mth("Unix", 1, <<"int64">>)>>)

\* types S, T and U of the package comment, and the struct of S.B.
typeDocS ==
  Struct(<<Fld("A", "*int"), Fld("B", "docB"), Fld("E", "*docT")>>, <<>>)

typeDocB == Struct(<<Fld("C", "bool"), Fld("D", "string")>>, <<>>)

typeDocT ==
  Struct(<<Fld("F", "string")>>,
         <<Mth("M", 1, <<"float64">>), Mth("N", 1, <<"*docU", "error">>)>>)

typeDocU == Struct(<<Fld("G", "int64")>>, <<>>)

\* time.Time is a struct of three unexported fields; its methods are not
\* used by any path of the model.
typeTime ==
  Struct(<<Fld("wall", "uint64"), Fld("ext", "int64"),
           Fld("loc", "*time.Location")>>, <<>>)

\* time.Duration is an int64 with methods; of these the model has Round,
\* which takes an argument, and Seconds.
typeDuration ==
  [Kind |-> "Int64", Elem |-> "", Fields |-> <<>>,
   Methods |-> <<Mth("Round", 2, <<"time.Duration">>),
                 Mth("Seconds", 1, <<"float64">>)>>]

\* type Type of the package: a uint with the method String.
typeType ==
  [Kind |-> "Uint", Elem |-> "", Fields |-> <<>>,
   Methods |-> <<Mth("String", 1, <<"string">>)>>]

\* type Column of the package.
typeColumn ==
  Struct(<<Fld("Name", "string"), Fld("Type", "Type"),
           Fld("Value", "func(int) interface{}"), Fld("MayFail", "bool"),
           Fld("access", "[]step")>>,
         <<>>)

\* Every type the model knows, by name.
goTypes(t) ==
  CASE t = "bool" -> Plain("Bool")
    [] t = "int" -> Plain("Int")
    [] t = "int64" -> Plain("Int64")
    [] t = "uint64" -> Plain("Uint64")
    [] t = "float64" -> Plain("Float64")
    [] t = "string" -> Plain("String")
    [] t = "complex64" -> Plain("Complex64")
    [] t = "error" -> Plain("Interface")
    [] t = "time.Duration" -> typeDuration
    [] t = "Named" -> Plain("Uint16")
    [] t = "Named32" -> Plain("Uint32")
    [] t = "time.Time" -> typeTime
    [] t = "time.Location" -> Struct(<<>>, <<>>)
    [] t = "S" -> typeS
    [] t = "T" -> typeT
    [] t = "TT" -> typeTT
    [] t = "TTT" -> typeTTT
    [] t = "Some" -> typeSome
    [] t = "Other" -> typeOther
    [] t = "Type" -> typeType
    [] t = "Column" -> typeColumn
    [] t = "func(int) interface{}" -> Plain("Func")
    [] t = "[]step" -> Of("Slice", "step")
    [] t = "[]Column" -> Of("Slice", "Column")
    [] t = "docS" -> typeDocS
    [] t = "docB" -> typeDocB
    [] t = "docT" -> typeDocT
    [] t = "docU" -> typeDocU
    [] t = "*int" -> Of("Ptr", "int")
    [] t = "**int" -> Of("Ptr", "*int")
    [] t = "*float64" -> Of("Ptr", "float64")
    [] t = "*time.Location" -> Of("Ptr", "time.Location")
    [] t = "*S" -> Of("Ptr", "S")
    [] t = "*Other" -> Of("Ptr", "Other")
    [] t = "*docS" -> Of("Ptr", "docS")
    [] t = "*docT" -> Of("Ptr", "docT")
    [] t = "*docU" -> Of("Ptr", "docU")
    [] t = "**docU" -> Of("Ptr", "*docU")
    [] t = "[]T" -> Of("Slice", "T")
    [] t = "[]*S" -> Of("Slice", "*S")
    [] t = "[]Some" -> Of("Slice", "Some")
    [] t = "[]*docS" -> Of("Slice", "*docS")
    [] t = "[]**docU" -> Of("Slice", "**docU")

\* reflect.Type.Kind
Kind(t) == goTypes(t).Kind

\* reflect.Type.Elem
Elem(t) == goTypes(t).Elem

\* reflect.Type.NumField of a struct type
NumField(t) == Len(goTypes(t).Fields)

\* reflect.Type.Field(f), f counted from 0
Field(t, f) == goTypes(t).Fields[f + 1]

\* reflect.Type.MethodByName: the method and whether there is one.
MethodByName(t, name) ==
  LET among(ms) ==
        IF \E k \in 1..Len(ms) : ms[k].Name = name
        THEN [ok |-> TRUE, recv |-> t,
              m |-> ms[CHOOSE k \in 1..Len(ms) : ms[k].Name = name]]
        ELSE [ok |-> FALSE, recv |-> t, m |-> Mth("", 0, <<>>)]
  IN  among(goTypes(t).Methods)

\* isTime
isTime(x) == x = "time.Time" /\ Kind(x) = "Struct"

\* The basic type of a column.
NA == "NA"
Bool == "Bool"
IntT == "Int"
Float == "Float"
String == "String"
Time == "Time"

\* superType returns our types which group Go's low level types.
superType(t) ==
  LET switch(kind) ==
        CASE kind = "Bool" -> Bool
          [] kind \in {"Int", "Int8", "Int16", "Int32", "Int64"} -> IntT
          [] kind = "String" -> String
          [] kind \in {"Float32", "Float64"} -> Float
          [] kind = "Struct" -> IF isTime(t) THEN Time ELSE NA
          [] OTHER -> NA
  IN  switch(Kind(t))

\* errorInterfaceType, and whether a type implements it.
errorInterfaceType == "error"

Implements(t, iface) == t = iface

(* ----------------------------------------------------------------------- *)
(* The path compiler.                                                      *)

\* The zero reflect.Value in step.method: the step is a field access.
NoMethod == [valid |-> FALSE, recv |-> "", name |-> ""]

\* step describes one step during the way down the type hierarchy.
step(name, indir, method, field, mayFail, typ) ==
  [name |-> name, indir |-> indir, method |-> method, field |-> field,
   mayFail |-> mayFail, typ |-> typ]

\* step.isMethodCall
isMethodCall(s) == s.method.valid

\* stripPtr as it would be if it counted one indirection at most.
RECURSIVE stripPtrOnce(_, _)
stripPtrOnce(typ, indir) ==
  IF Kind(typ) = "Ptr" THEN stripPtrOnce(Elem(typ), 1)
  ELSE [typ |-> typ, indir |-> indir]

\* The loop `for typ.Kind() == reflect.Ptr { typ = typ.Elem(); indir++ }`.
RECURSIVE stripPtr(_, _)
stripPtr(typ, indir) ==
  IF Kind(typ) = "Ptr" THEN stripPtr(Elem(typ), indir + 1)
  ELSE [typ |-> typ, indir |-> indir]

\* The error values the package returns; nil is no error.
nil == "nil"
errFinalField == "export: cannot use field as final element"
errNoFieldOrMethod == "export: no field or method"
errMethod == "export: cannot use method"
errFinalMethod == "export: cannot use methods return as final element"
errNoExtractor == "Cannot build Extrator"

\* What a call of buildSteps or newSOMExtractor ends in: it returns, with an
\* error or without, or it panics inside package reflect.
returned(steps, err) == [steps |-> steps, err |-> err, panic |-> FALSE]
panicked(steps) == [steps |-> steps, err |-> nil, panic |-> TRUE]

\* The index of the first field of typ named cur, or -1.
fieldNamed(typ, cur) ==
  LET first(hit) ==
        IF hit = {} THEN -1 ELSE CHOOSE f \in hit : \A g \in hit : f <= g
  IN  first({f \in 0..(NumField(typ) - 1) : Field(typ, f).Name = cur})

\* The method part of one iteration of buildSteps: the step for the method
\* cur of typ, or the error.
methodStep(typ, cur, last) ==
  LET found(mb) ==
        LET mt == mb.m
            numOut == Len(mt.Out)
        IN  IF ~mb.ok THEN [err |-> errNoFieldOrMethod, s |-> NoMethod]
            ELSE IF mt.NumIn # 1 \/ (numOut # 1 /\ numOut # 2)
              THEN [err |-> errMethod, s |-> NoMethod]
            ELSE IF last /\ superType(mt.Out[1]) = NA
              THEN [err |-> errFinalMethod, s |-> NoMethod]
            ELSE IF numOut = 2 /\ ~(Kind(mt.Out[2]) = "Interface"
                                    /\ Implements(mt.Out[2], errorInterfaceType))
              THEN [err |-> errMethod, s |-> NoMethod]
            ELSE [err |-> nil,
                  s |-> step(cur, 0,
                             [valid |-> TRUE, recv |-> typ, name |-> cur],
                             0, numOut = 2, mt.Out[1])]
  IN  found(MethodByName(typ, cur))

\* buildFrom as it would be without the test of a final field's type.
RECURSIVE buildFromAnyField(_, _, _, _)
buildFromAnyField(typ, steps, elements, e) ==
  IF e > Len(elements) THEN returned(steps, nil)
  ELSE
    LET cur == elements[e]
        last == e = Len(elements)
        field(f, st) ==
          buildFromAnyField(st.typ,
            Append(steps, step(cur, st.indir, NoMethod, f, FALSE, st.typ)),
            elements, e + 1)
        method(ms) ==
          IF ms.err # nil THEN returned(steps, ms.err)
          ELSE buildFromAnyField(ms.s.typ, Append(steps, ms.s),
                                 elements, e + 1)
        element(f) ==
          IF f >= 0 THEN field(f, stripPtr(Field(typ, f).Type, 0))
          ELSE method(methodStep(typ, cur, last))
    IN  IF Kind(typ) # "Struct" THEN panicked(steps)
        ELSE element(fieldNamed(typ, cur))

\* buildFrom as it would be if it tested the type of every field, final or
\* not.
RECURSIVE buildFromEveryField(_, _, _, _)
buildFromEveryField(typ, steps, elements, e) ==
  IF e > Len(elements) THEN returned(steps, nil)
  ELSE
    LET cur == elements[e]
        last == e = Len(elements)
        field(f, st) ==
          IF superType(st.typ) = NA
          THEN returned(steps, errFinalField)
          ELSE buildFromEveryField(st.typ,
                 Append(steps,
                        step(cur, st.indir, NoMethod, f, FALSE, st.typ)),
                 elements, e + 1)
        method(ms) ==
          IF ms.err # nil THEN returned(steps, ms.err)
          ELSE buildFromEveryField(ms.s.typ, Append(steps, ms.s),
                                   elements, e + 1)
        element(f) ==
          IF f >= 0 THEN field(f, stripPtr(Field(typ, f).Type, 0))
          ELSE method(methodStep(typ, cur, last))
    IN  IF Kind(typ) # "Struct" THEN panicked(steps)
        ELSE element(fieldNamed(typ, cur))

\* The loop of buildSteps from element e (counted from 1) on.
RECURSIVE buildFrom(_, _, _, _)
buildFrom(typ, steps, elements, e) ==
  IF e > Len(elements) THEN returned(steps, nil)
  ELSE
    LET cur == elements[e]
        last == e = Len(elements)
        field(f, st) ==
          IF last /\ superType(st.typ) = NA
          THEN returned(steps, errFinalField)
          ELSE buildFrom(st.typ,
                 Append(steps,
                        step(cur, st.indir, NoMethod, f, FALSE, st.typ)),
                 elements, e + 1)
        method(ms) ==
          IF ms.err # nil THEN returned(steps, ms.err)
          ELSE buildFrom(ms.s.typ, Append(steps, ms.s), elements, e + 1)
        element(f) ==
          IF f >= 0 THEN field(f, stripPtr(Field(typ, f).Type, 0))
          ELSE method(methodStep(typ, cur, last))
    IN  IF Kind(typ) # "Struct" THEN panicked(steps)  \* typ.NumField()
        ELSE element(fieldNamed(typ, cur))

\* buildSteps constructs a slice of steps to access the given elem in typ.
buildSteps(typ, elem) == buildFrom(typ, <<>>, Split(elem, "."), 1)

(* ----------------------------------------------------------------------- *)
(* Go values: records tagged with their type.                              *)

\* An int64 as the quotient and the remainder of its division by 10^9: the
\* integers of TLC have 32 bits, and the nanoseconds of a time.Duration
\* and the Unix seconds of a time do not fit them.
giga == 1000000000
wide(n) == [hi |-> n \div giga, lo |-> n % giga]
big(hi, lo) == [hi |-> hi, lo |-> lo]
\* a < b, a + n and n * a of wide a and b and small n.
less(a, b) == a.hi < b.hi \/ (a.hi = b.hi /\ a.lo < b.lo)
plus(a, n) == [hi |-> a.hi + (a.lo + n) \div giga, lo |-> (a.lo + n) % giga]
times(n, a) ==
  [hi |-> n * a.hi + (n * a.lo) \div giga, lo |-> (n * a.lo) % giga]
\* A wide integer without its last digit.
tenth(a) ==
  [hi |-> a.hi \div 10, lo |-> (a.hi % 10) * (giga \div 10) + a.lo \div 10]

BoolV(b) == [typ |-> "bool", b |-> b]
\* An integer of type t: of the wide value w, and of the small value n.
WideV(t, w) == [typ |-> t, i |-> w]
IntV(t, n) == WideV(t, wide(n))
UintV(t, n) == [typ |-> t, u |-> n]
\* A float64, in hundredths.
FloatV(n) == [typ |-> "float64", f |-> n]
ComplexV(re, im) == [typ |-> "complex64", re |-> re, im |-> im]
StringV(s) == [typ |-> "string", s |-> s]
\* A time.Time, by its hour and its Unix seconds: of the wide value w, and
\* of the small value unix.
TimeW(hour, w) == [typ |-> "time.Time", hour |-> hour, unix |-> w]
TimeV(hour, unix) == TimeW(hour, wide(unix))
\* A nil pointer or nil interface of type t.
NilV(t) == [typ |-> t, isNil |-> TRUE]
\* A pointer of type t to elem.
PtrV(t, elem) == [typ |-> t, isNil |-> FALSE, elem |-> elem]
StructV(t, fields) == [typ |-> t, fields |-> fields]

\* reflect.TypeOf
TypeOf(v) == v.typ

\* len of the strings the data holds.
strLen(str) ==
  CASE str = "" -> 0
    [] str = "Go" -> 2
    [] str = "Hello" -> 5
    [] str = "Short" -> 5
    [] str = "Hello World!" -> 12

someError == [typ |-> "error", isNil |-> FALSE, msg |-> "some error"]

time1 == TimeV(15, 946826430)
time2 == TimeV(3, 946783230)

\* The example's t0, t1 and t2; t2 is the second 4070908860.
t0 == TimeV(8, 1261989900)
t1 == TimeV(23, 1418428799)
t2 == TimeW(0, big(4, 70908860))

\* time.Millisecond and time.Second, in nanoseconds.
Millisecond == wide(1000000)
Second == times(1000, Millisecond)

\* The records of the tests' ss.
ss1 ==
  StructV("S", <<BoolV(TRUE), IntV("int", 23), FloatV(4567),
                 StringV("Hello World!"), time1, NilV("error"),
                 UintV("Named", 123),
                 WideV("time.Duration", times(3, Second)),
                 ComplexV(310, 420)>>)
ss2 ==
  StructV("S", <<BoolV(FALSE), IntV("int", 9), FloatV(876),
                 StringV("Short"), time2, NilV("error"),
                 UintV("Named", 456),
                 WideV("time.Duration", times(9, Millisecond)),
                 ComplexV(0, 900)>>)

\* Records of type T: the one of TestAccessRetrieve, and two more that have
\* a nil at the other pointer layers.
tt1 ==
  StructV("T", <<IntV("int", 11), NilV("*int"),
                 PtrV("**int", PtrV("*int", IntV("int", 13))),
                 StructV("TT", <<FloatV(1900),
                                 PtrV("*float64", FloatV(1700))>>)>>)
tt2 ==
  StructV("T", <<IntV("int", 2), PtrV("*int", IntV("int", 1)),
                 PtrV("**int", NilV("*int")),
                 StructV("TT", <<FloatV(300), NilV("*float64")>>)>>)
tt3 ==
  StructV("T", <<IntV("int", 4), PtrV("*int", IntV("int", 2)),
                 NilV("**int"),
                 StructV("TT", <<FloatV(500),
                                 PtrV("*float64", FloatV(700))>>)>>)

\* The records of the example.
some1 ==
  StructV("Some", <<FloatV(314), StringV("Hello"),
                    PtrV("*int", IntV("int", 8)),
                    StructV("Other", <<t0>>),
                    PtrV("*Other", StructV("Other", <<t1>>))>>)
some2 ==
  StructV("Some", <<FloatV(272), StringV("Go"), NilV("*int"),
                    StructV("Other", <<t1>>),
                    PtrV("*Other", StructV("Other", <<t2>>))>>)
some3 ==
  StructV("Some", <<FloatV(141), StringV(""),
                    PtrV("*int", IntV("int", 9)),
                    StructV("Other", <<t2>>), NilV("*Other")>>)

\* Records of the package comment's type S.
docS1 ==
  StructV("docS", <<PtrV("*int", IntV("int", 5)),
                    StructV("docB", <<BoolV(TRUE), StringV("Go")>>),
                    PtrV("*docT", StructV("docT", <<StringV("Hello")>>))>>)
docS2 ==
  StructV("docS", <<NilV("*int"),
                    StructV("docB", <<BoolV(FALSE), StringV("")>>),
                    NilV("*docT")>>)

\* A Column: Column{Name: "Go", Type: Int, MayFail: true}.
column1 ==
  StructV("Column", <<StringV("Go"), UintV("Type", 2),
                      NilV("func(int) interface{}"), BoolV(TRUE),
                      NilV("[]step")>>)

\* A record of the package comment's type U.
docU1 == StructV("docU", <<IntV("int64", 42)>>)

\* The backing arrays of the collections.
arrays ==
  <<[typ |-> "[]T", elems |-> <<tt1, tt2, tt3>>],
    [typ |-> "[]*S", elems |-> <<PtrV("*S", ss1), NilV("*S"), PtrV("*S", ss2)>>],
    [typ |-> "[]Some", elems |-> <<some1, some2, some3>>],
    [typ |-> "[]*docS",
     elems |-> <<PtrV("*docS", docS1), NilV("*docS"), PtrV("*docS", docS2)>>],
    [typ |-> "[]**docU",
     elems |-> <<PtrV("**docU", PtrV("*docU", docU1)),
                 PtrV("**docU", NilV("*docU")), NilV("**docU")>>],
    [typ |-> "[]Column", elems |-> <<column1>>]>>

\* A slice: len elements of backing array arr, from offset lo on.
SliceV(t, arr, lo, len) == [typ |-> t, arr |-> arr, lo |-> lo, len |-> len]

\* The slices a caller passes: data[0:len] and data[1:1+len] of an array.
Slices ==
  LET of(a) ==
        {SliceV(a[w[1]].typ, w[1], w[2], w[3]) :
           w \in {w \in (1..Len(a)) \X {0, 1} \X (0..MaxLen) :
                     /\ w[2] + w[3] <= Len(a[w[1]].elems)
                     /\ w[2] > 0 => w[3] > 0}}
  IN  of(arrays)

\* Data that is no slice: a struct and an int.
NoSlices == {tt1, IntV("int", 7)}

(* ----------------------------------------------------------------------- *)
(* The methods of the record types.                                        *)

\* The zero value of TT, and TTT{E: s}.
zeroTT == StructV("TT", <<FloatV(0), NilV("*float64")>>)
newTTT(s) == StructV("TTT", <<StringV(s)>>)

\* reflect.Value.Call of method m.name of type m.recv on receiver v: the
\* results of the method.
Call(m, v) ==
  LET fld(k) == v.fields[k]
      orErr(ok, val, zero) ==
        IF ok THEN <<val, NilV("error")>> ELSE <<zero, someError>>
      name == m.name
  IN  CASE m.recv = "S" /\ name = "BM" -> <<fld(1)>>
        [] m.recv = "S" /\ name = "IM" -> <<fld(2)>>
        [] m.recv = "S" /\ name = "FM" -> <<fld(3)>>
        [] m.recv = "S" /\ name = "SM" -> <<fld(4)>>
        [] m.recv = "S" /\ name = "TM" -> <<fld(5)>>
        [] m.recv = "S" /\ name = "DM" -> <<fld(8)>>
        [] m.recv = "S" /\ name = "BME" ->
             orErr(fld(1).b, BoolV(TRUE), BoolV(FALSE))
        [] m.recv = "S" /\ name = "IME" ->
             orErr(less(wide(10), fld(2).i), fld(2), IntV("int", 0))
        [] m.recv = "S" /\ name = "FME" ->
             orErr(fld(3).f > 1000, fld(3), FloatV(0))
        [] m.recv = "S" /\ name = "SME" ->
             orErr(strLen(fld(4).s) > 10, fld(4), StringV(""))
        [] m.recv = "S" /\ name = "TME" ->
             orErr(fld(5).hour > 10, fld(5), TimeV(0, 0))
        [] m.recv = "S" /\ name = "DME" ->
             orErr(less(Second, fld(8).i), fld(8), IntV("time.Duration", 0))
        [] m.recv = "TT" /\ name = "D" -> <<IntV("int", 123)>>
        [] m.recv = "TT" /\ name = "F" -> <<newTTT("Hello")>>
        [] m.recv = "TT" /\ name = "FE" -> <<newTTT(""), someError>>
        [] m.recv = "TTT" /\ name = "G" ->
             <<IntV("int", strLen(fld(1).s))>>
        [] m.recv = "TTT" /\ name = "GTT" -> <<zeroTT>>
        [] m.recv = "Some" /\ name = "Method1" ->
             <<IntV("int", (fld(1).f + 50) \div 100)>>
        [] m.recv = "Some" /\ name = "Method2" ->
             orErr(fld(2).s # "", BoolV(strLen(fld(2).s) > 5), BoolV(FALSE))
        [] m.recv = "Other" /\ name = "Unix" ->
             <<WideV("int64", fld(1).unix)>>
        [] m.recv = "docT" /\ name = "M" -> <<FloatV(314)>>
        [] m.recv = "docT" /\ name = "N" ->
             <<PtrV("*docU", StructV("docU", <<IntV("int64", 123)>>)),
               NilV("error")>>

(* ----------------------------------------------------------------------- *)
(* The path executor.                                                      *)

\* The loop that follows n pointer indirections from v: the value reached,
\* and whether a nil pointer stopped it.
RECURSIVE follow(_, _)
follow(v, n) ==
  IF n = 0 THEN [v |-> v, isNil |-> FALSE]
  ELSE IF v.isNil THEN [v |-> v, isNil |-> TRUE]
  ELSE follow(v.elem, n - 1)

errCallFailed == "method call failed"
errNilPointer == "nil pointer"

\* accessFrom as it would be without the test of the method's error.
RECURSIVE accessFromNoStop(_, _, _, _)
accessFromNoStop(v, steps, k, calls) ==
  IF k > Len(steps) THEN [v |-> v, err |-> nil, calls |-> calls]
  ELSE
    LET s == steps[k]
        z == Call(s.method, v)
        calls2 == IF s.method.valid THEN Append(calls, k) ELSE calls
        down == IF s.method.valid THEN z[1] ELSE v.fields[s.field + 1]
        fl == follow(down, s.indir)
    IN  IF fl.isNil
          THEN [v |-> fl.v, err |-> errNilPointer, calls |-> calls2]
        ELSE accessFromNoStop(fl.v, steps, k + 1, calls2)

\* accessFrom as it would be if it took a nil error for a failure and a
\* non-nil error for none.
RECURSIVE accessFromNilIsFailure(_, _, _, _)
accessFromNilIsFailure(v, steps, k, calls) ==
  IF k > Len(steps) THEN [v |-> v, err |-> nil, calls |-> calls]
  ELSE
    LET s == steps[k]
        z == Call(s.method, v)
        failed == s.method.valid /\ s.mayFail /\ z[2].isNil
        calls2 == IF s.method.valid THEN Append(calls, k) ELSE calls
        down == IF s.method.valid THEN z[1] ELSE v.fields[s.field + 1]
        fl == follow(down, s.indir)
    IN  IF failed THEN [v |-> v, err |-> errCallFailed, calls |-> calls2]
        ELSE IF fl.isNil
          THEN [v |-> fl.v, err |-> errNilPointer, calls |-> calls2]
        ELSE accessFromNilIsFailure(fl.v, steps, k + 1, calls2)

\* accessFrom as it would be if it gave up at every pointer, nil or not.
RECURSIVE accessFromFailsOnPointer(_, _, _, _)
accessFromFailsOnPointer(v, steps, k, calls) ==
  IF k > Len(steps) THEN [v |-> v, err |-> nil, calls |-> calls]
  ELSE
    LET s == steps[k]
        z == Call(s.method, v)
        failed == s.method.valid /\ s.mayFail /\ ~z[2].isNil
        calls2 == IF s.method.valid THEN Append(calls, k) ELSE calls
        down == IF s.method.valid THEN z[1] ELSE v.fields[s.field + 1]
        fl == follow(down, s.indir)
    IN  IF failed THEN [v |-> v, err |-> errCallFailed, calls |-> calls2]
        ELSE IF fl.isNil \/ s.indir > 0
          THEN [v |-> fl.v, err |-> errNilPointer, calls |-> calls2]
        ELSE accessFromFailsOnPointer(fl.v, steps, k + 1, calls2)

\* The loop of access from step k (counted from 1) on; calls lists the
\* steps whose method has been called so far.
RECURSIVE accessFrom(_, _, _, _)
accessFrom(v, steps, k, calls) ==
  IF k > Len(steps) THEN [v |-> v, err |-> nil, calls |-> calls]
  ELSE
    LET s == steps[k]
        z == Call(s.method, v)
        failed == s.method.valid /\ s.mayFail /\ ~z[2].isNil
        calls2 == IF s.method.valid THEN Append(calls, k) ELSE calls
        down == IF s.method.valid THEN z[1] ELSE v.fields[s.field + 1]
        fl == follow(down, s.indir)
    IN  IF failed THEN [v |-> v, err |-> errCallFailed, calls |-> calls2]
        ELSE IF fl.isNil
          THEN [v |-> fl.v, err |-> errNilPointer, calls |-> calls2]
        ELSE accessFrom(fl.v, steps, k + 1, calls2)

\* access drills down in v according to the given steps.
access(v, steps) == accessFrom(v, steps, 1, <<>>)

\* The nil interface value: no value was found.
Absent == [typ |-> "nil"]

\* retrieve as it would be if it returned false and not nil for a nil
\* element.
retrieveNilElementIsFalse(v, steps, indir) ==
  LET typed(a, st) ==
        IF st = Bool
          THEN [val |-> BoolV(a.v.b), calls |-> a.calls, by |-> "value"]
        ELSE IF st = IntT
          THEN [val |-> WideV("int64", a.v.i), calls |-> a.calls, by |-> "value"]
        ELSE IF st = Float
          THEN [val |-> FloatV(a.v.f), calls |-> a.calls, by |-> "value"]
        ELSE IF st = String
          THEN [val |-> StringV(a.v.s), calls |-> a.calls, by |-> "value"]
        ELSE IF st = Time
          THEN [val |-> a.v, calls |-> a.calls, by |-> "value"]
        ELSE [val |-> Absent, calls |-> a.calls, by |-> "no type"]
      accessed(a) ==
        IF a.err # nil
          THEN [val |-> Absent, calls |-> a.calls, by |-> "access failed"]
        ELSE typed(a, superType(TypeOf(a.v)))
      element(el) ==
        IF el.isNil
          THEN [val |-> BoolV(FALSE), calls |-> <<>>, by |-> "nil element"]
        ELSE accessed(access(el.v, steps))
  IN  element(follow(v, indir))

\* retrieve as it would be if it returned the value that access reached as
\* it is, without the conversion of the switch.
retrieveUnconverted(v, steps, indir) ==
  LET typed(a, st) ==
        IF st \in {Bool, IntT, Float, String, Time}
          THEN [val |-> a.v, calls |-> a.calls, by |-> "value"]
        ELSE [val |-> Absent, calls |-> a.calls, by |-> "no type"]
      accessed(a) ==
        IF a.err # nil
          THEN [val |-> Absent, calls |-> a.calls, by |-> "access failed"]
        ELSE typed(a, superType(TypeOf(a.v)))
      element(el) ==
        IF el.isNil
          THEN [val |-> Absent, calls |-> <<>>, by |-> "nil element"]
        ELSE accessed(access(el.v, steps))
  IN  element(follow(v, indir))

\* retrieve decends v according to steps and returns the last value either
\* as bool, int64, float64, string or time.Time; by records the return
\* statement taken.
retrieve(v, steps, indir) ==
  LET typed(a, st) ==
        IF st = Bool
          THEN [val |-> BoolV(a.v.b), calls |-> a.calls, by |-> "value"]
        ELSE IF st = IntT
          THEN [val |-> WideV("int64", a.v.i), calls |-> a.calls, by |-> "value"]
        ELSE IF st = Float
          THEN [val |-> FloatV(a.v.f), calls |-> a.calls, by |-> "value"]
        ELSE IF st = String
          THEN [val |-> StringV(a.v.s), calls |-> a.calls, by |-> "value"]
        ELSE IF st = Time
          THEN [val |-> a.v, calls |-> a.calls, by |-> "value"]
        ELSE [val |-> Absent, calls |-> a.calls, by |-> "no type"]
      accessed(a) ==
        IF a.err # nil
          THEN [val |-> Absent, calls |-> a.calls, by |-> "access failed"]
        ELSE typed(a, superType(TypeOf(a.v)))
      element(el) ==
        IF el.isNil
          THEN [val |-> Absent, calls |-> <<>>, by |-> "nil element"]
        ELSE accessed(access(el.v, steps))
  IN  element(follow(v, indir))

\* One pass of the loop of access: step s on v, down the field or the
\* method and then along the pointer indirections.
accessStep(v, s) ==
  LET along(fl) ==
        IF fl.isNil THEN [v |-> fl.v, err |-> errNilPointer]
        ELSE [v |-> fl.v, err |-> nil]
      called(z) ==
        IF s.mayFail /\ ~z[2].isNil THEN [v |-> v, err |-> errCallFailed]
        ELSE along(follow(z[1], s.indir))
  IN  IF s.method.valid THEN called(Call(s.method, v))
      ELSE along(follow(v.fields[s.field + 1], s.indir))

\* The switch of retrieve on the type of the value res that access reached.
typeSwitch(res) ==
  LET as(st) ==
        IF st = Bool THEN BoolV(res.b)
        ELSE IF st = IntT THEN WideV("int64", res.i)
        ELSE IF st = Float THEN FloatV(res.f)
        ELSE IF st = String THEN StringV(res.s)
        ELSE IF st = Time THEN res
        ELSE Absent
  IN  as(superType(TypeOf(res)))

(* ----------------------------------------------------------------------- *)
(* Column and Extractor.                                                   *)

\* The nil func value of Column.Value, and the closure bindSOM makes: it
\* captures the slice v and the step list access.
NoValue == [set |-> FALSE, v |-> SliceV("", 0, 0, 0), access |-> <<>>]
ValueFunc(v, acc) == [set |-> TRUE, v |-> v, access |-> acc]

\* Column
Column(name, type, mayFail, acc) ==
  [Name |-> name, Type |-> type, Value |-> NoValue, MayFail |-> mayFail,
   access |-> acc]

\* Extractor{}: the zero Extractor.
Extractor ==
  [N |-> 0, Columns |-> <<>>, som |-> FALSE, indir |-> 0, typ |-> "nil"]

\* The nil *Extractor.
NoExtractor == [isNil |-> TRUE]

\* Index as it would be if the Extractor read a copy of the collection made
\* before the first call.
IndexOfCopy(h, v, i) == arrays[v.arr].elems[v.lo + i + 1]

\* reflect.Value.Index(i) of a slice, i counted from 0, over backing arrays h.
Index(h, v, i) == h[v.arr].elems[v.lo + i + 1]

\* bindSOM as it would be if every closure captured the loop variable field
\* and so used the step list of the last column.
bindSOMSharedField(e, data) ==
  [e EXCEPT !.N = data.len,
            !.Columns = [fn \in 1..Len(e.Columns) |->
                           [e.Columns[fn] EXCEPT
                              !.Value = ValueFunc(data,
                                          e.Columns[Len(e.Columns)].access)]]]

\* bindSOM as it would be without the assignment to e.N.
bindSOMKeepN(e, data) ==
  [e EXCEPT !.Columns = [fn \in 1..Len(e.Columns) |->
                           [e.Columns[fn] EXCEPT
                              !.Value = ValueFunc(data, e.Columns[fn].access)]]]

\* bindSOM as it would be if it named every column anew after the last step
\* of its path.
bindSOMRenames(e, data) ==
  [e EXCEPT !.N = data.len,
            !.Columns = [fn \in 1..Len(e.Columns) |->
                           [e.Columns[fn] EXCEPT
                              !.Name = e.Columns[fn].access[
                                         Len(e.Columns[fn].access)].name,
                              !.Value = ValueFunc(data, e.Columns[fn].access)]]]

\* bindSOM as it would be if it appended the bound columns to e.Columns
\* instead of assigning the value functions in place.
bindSOMAppends(e, data) ==
  [e EXCEPT !.N = data.len,
            !.Columns = @ \o [fn \in 1..Len(e.Columns) |->
                           [e.Columns[fn] EXCEPT
                              !.Value = ValueFunc(data, e.Columns[fn].access)]]]

\* bindSOM as it would be if it gave the column at place fn the path of the
\* column at the mirrored place.
bindSOMMirrored(e, data) ==
  [e EXCEPT !.N = data.len,
            !.Columns = [fn \in 1..Len(e.Columns) |->
                           [e.Columns[fn] EXCEPT
                              !.Value =
                                ValueFunc(data,
                                  e.Columns[Len(e.Columns) + 1 - fn].access)]]]

\* bindSOM is the slice-of-measurements version of Bind.
bindSOM(e, data) ==
  [e EXCEPT !.N = data.len,
            !.Columns = [fn \in 1..Len(e.Columns) |->
                           [e.Columns[fn] EXCEPT
                              !.Value = ValueFunc(data, e.Columns[fn].access)]]]

\* The column newSOMExtractor makes of the steps of one spec.
newColumn(steps) ==
  LET last == steps[Len(steps)]
      mayFail == IF isMethodCall(last) THEN last.mayFail ELSE last.indir > 0
  IN  Column(last.name, superType(last.typ), mayFail, steps)

\* columnsFrom as it would be if it put each new column in front.
RECURSIVE columnsFromPrepend(_, _, _, _)
columnsFromPrepend(typ, colSpecs, k, ex) ==
  IF k > Len(colSpecs) THEN [ex |-> ex, err |-> nil, panic |-> FALSE]
  ELSE
    LET built(b) ==
          IF b.panic THEN [ex |-> NoExtractor, err |-> nil, panic |-> TRUE]
          ELSE IF b.err # nil
            THEN [ex |-> NoExtractor, err |-> b.err, panic |-> FALSE]
          ELSE columnsFromPrepend(typ, colSpecs, k + 1,
                 [ex EXCEPT !.Columns = <<newColumn(b.steps)>> \o @])
    IN  built(buildSteps(typ, colSpecs[k]))

\* The loop of newSOMExtractor over the column specs from spec k on.
RECURSIVE columnsFrom(_, _, _, _)
columnsFrom(typ, colSpecs, k, ex) ==
  IF k > Len(colSpecs) THEN [ex |-> ex, err |-> nil, panic |-> FALSE]
  ELSE
    LET built(b) ==
          IF b.panic THEN [ex |-> NoExtractor, err |-> nil, panic |-> TRUE]
          ELSE IF b.err # nil
            THEN [ex |-> NoExtractor, err |-> b.err, panic |-> FALSE]
          ELSE columnsFrom(typ, colSpecs, k + 1,
                 [ex EXCEPT !.Columns = Append(@, newColumn(b.steps))])
    IN  built(buildSteps(typ, colSpecs[k]))

\* newSOMExtractor sets up an unbound Extractor for a slice-of-measurements
\* type data.
newSOMExtractor(data, colSpecs) ==
  LET columns(st) ==
        columnsFrom(st.typ, colSpecs, 1, [Extractor EXCEPT !.indir = st.indir])
  IN  columns(stripPtr(Elem(TypeOf(data)), 0))

\* What NewExtractor does with data and columnSpecs: the Extractor and the
\* error it returns, or a panic.
newExtractor(data, columnSpecs) ==
  LET typ == TypeOf(data)
      slice(r) ==
        IF r.panic \/ r.err # nil THEN r
        ELSE [ex |-> bindSOM([r.ex EXCEPT !.som = TRUE, !.typ = typ], data),
              err |-> nil, panic |-> FALSE]
      switch(kind) ==
        IF kind = "Slice" THEN slice(newSOMExtractor(data, columnSpecs))
        ELSE IF kind = "Struct"
          THEN [ex |-> NoExtractor, err |-> nil, panic |-> TRUE]
        ELSE [ex |-> Extractor, err |-> errNoExtractor, panic |-> FALSE]
  IN  switch(Kind(typ))

(* ----------------------------------------------------------------------- *)
(* Format and Column.Print.                                                *)

\* A *time.Location: nil, or a zone offset seconds east of UTC.
nilLocation == [isNil |-> TRUE, offset |-> 0]
FixedZone(offset) == [isNil |-> FALSE, offset |-> offset]
\* time.Local: the zone of the machine, which for the tests and the Example
\* is the zone one hour east of UTC.
Local == FixedZone(3600)

\* Format describes how different fields types will be formated.
Format(true, false, intFmt, floatFmt, stringFmt, timeFmt, timeLoc, na) ==
  [True |-> true, False |-> false, IntFmt |-> intFmt, FloatFmt |-> floatFmt,
   StringFmt |-> stringFmt, TimeFmt |-> timeFmt, TimeLoc |-> timeLoc,
   NA |-> na]

\* DefaultFormat are the default formating options, and RFormat is a format
\* for dumping what is read into R.
DefaultFormat ==
  Format("true", "false", "%d", "%.5g", "%s", "2006-01-02T15:04:05.999",
         Local, "")
RFormat ==
  Format("TRUE", "FALSE", "%d", "%.6g", "%s", "2006-01-02 15:04:05",
         Local, "NA")

\* format := DefaultFormat; format.TimeLoc = nil: the times are presented in
\* their original location.
originalFormat == [DefaultFormat EXCEPT !.TimeLoc = nilLocation]

\* The formats a caller passes to Print and Dump: one with a location and
\* one without.
Formats == {RFormat, originalFormat}

\* The decimal digit d.
digit(d) ==
  CASE d = 0 -> "0" [] d = 1 -> "1" [] d = 2 -> "2" [] d = 3 -> "3"
    [] d = 4 -> "4" [] d = 5 -> "5" [] d = 6 -> "6" [] d = 7 -> "7"
    [] d = 8 -> "8" [] d = 9 -> "9"

\* The verb %d of a small integer.
RECURSIVE itoa(_)
itoa(n) ==
  IF n < 0 THEN "-" \o itoa(0 - n)
  ELSE IF n < 10 THEN digit(n)
  ELSE itoa(n \div 10) \o digit(n % 10)

\* The verb %d of a wide integer.
RECURSIVE itoaWide(_)
itoaWide(a) ==
  IF a.hi < 0
    THEN "-" \o itoaWide(IF a.lo = 0 THEN big(0 - a.hi, 0)
                          ELSE big(0 - a.hi - 1, giga - a.lo))
  ELSE IF a.hi = 0 /\ a.lo < 10 THEN digit(a.lo)
  ELSE itoaWide(tenth(a)) \o digit(a.lo % 10)

\* The verbs %.5g, %.6g and %v of a float64 of n hundredths, 0 <= n < 100000:
\* the shortest decimal, which has at most five significant digits.
gFormat(n) ==
  IF n % 100 = 0 THEN itoa(n \div 100)
  ELSE IF n % 10 = 0 THEN itoa(n \div 100) \o "." \o digit((n % 100) \div 10)
  ELSE itoa(n \div 100) \o "." \o digit((n % 100) \div 10) \o digit(n % 10)

\* Two digits of n < 100.
pad2(n) == digit(n \div 10) \o digit(n % 10)

\* The civil date of day z - 719468 of the Unix epoch.
civil(z) ==
  LET era == z \div 146097
      doe == z - era * 146097
      yoe == (doe - doe \div 1460 + doe \div 36524 - doe \div 146096) \div 365
      doy == doe - (365 * yoe + yoe \div 4 - yoe \div 100)
      mp == (5 * doy + 2) \div 153
      m == IF mp < 10 THEN mp + 3 ELSE mp - 9
  IN  [year |-> yoe + era * 400 + (IF m <= 2 THEN 1 ELSE 0), month |-> m,
       day |-> doy - (153 * mp + 2) \div 5 + 1]

\* time.Time.Format of the second sec of the Unix epoch, presented offset
\* seconds east of UTC, for the layouts of DefaultFormat and RFormat; a whole
\* second has no fraction to print.
timeFormat(sec, offset, layout) ==
  LET at(date, clock) ==
        itoa(date.year) \o "-" \o pad2(date.month) \o "-" \o pad2(date.day)
          \o (IF layout = "2006-01-02 15:04:05" THEN " " ELSE "T")
          \o pad2(clock \div 3600) \o ":" \o pad2((clock % 3600) \div 60)
          \o ":" \o pad2(clock % 60)
      \* the days and the second of the day of hi * 10^9 + lo seconds
      local(t) ==
        at(civil(t.hi * (giga \div 86400)
                   + (t.hi * (giga % 86400) + t.lo) \div 86400 + 719468),
           (t.hi * (giga % 86400) + t.lo) % 86400)
  IN  local(plus(sec, offset))

\* fmt.Sprintf(format, val) for the verbs of the formats and for %v.
Sprintf(format, val) ==
  CASE "b" \in DOMAIN val ->
         IF format = "%v" THEN (IF val.b THEN "true" ELSE "false")
         ELSE "%!" \o format
    [] "i" \in DOMAIN val ->
         IF format \in {"%d", "%v"} THEN itoaWide(val.i) ELSE "%!" \o format
    [] "f" \in DOMAIN val ->
         IF format \in {"%.5g", "%.6g", "%v"} THEN gFormat(val.f)
         ELSE "%!" \o format
    [] "s" \in DOMAIN val ->
         IF format \in {"%s", "%v"} THEN val.s ELSE "%!" \o format
    [] "unix" \in DOMAIN val ->
         timeFormat(val.unix, 0, "2006-01-02 15:04:05") \o " +0000 UTC"
    [] OTHER -> "%!" \o format

\* The dynamic types of an interface{} that the type assertions of Print
\* name.
assertable(type, val) ==
  CASE type = Bool -> TypeOf(val) = "bool"
    [] type = IntT -> TypeOf(val) = "int64"
    [] type = Float -> TypeOf(val) = "float64"
    [] type = String -> TypeOf(val) = "string"
    [] type = Time -> TypeOf(val) = "time.Time"
    [] OTHER -> TRUE

\* Column.Print as it would be if it printed the empty string for a missing
\* value.
ColumnPrintEmptyForNil(c, format, val) ==
  IF val = Absent THEN [text |-> "", panic |-> FALSE]
  ELSE IF ~assertable(c.Type, val) THEN [text |-> "", panic |-> TRUE]
  ELSE [text |->
          CASE c.Type = Bool -> IF val.b THEN format.True ELSE format.False
            [] c.Type = IntT -> Sprintf(format.IntFmt, val)
            [] c.Type = Float -> Sprintf(format.FloatFmt, val)
            [] c.Type = String -> Sprintf(format.StringFmt, val)
            [] c.Type = Time ->
                 timeFormat(val.unix,
                            IF format.TimeLoc.isNil THEN 0
                            ELSE format.TimeLoc.offset,
                            format.TimeFmt)
            [] OTHER -> "Ooops: " \o Sprintf("%v", val),
        panic |-> FALSE]

\* Column.Print: print the entry of column c whose Value is val according
\* to the given format: the string returned, or the panic of a type
\* assertion.
ColumnPrint(c, format, val) ==
  IF val = Absent THEN [text |-> format.NA, panic |-> FALSE]
  ELSE IF ~assertable(c.Type, val) THEN [text |-> "", panic |-> TRUE]
  ELSE [text |->
          CASE c.Type = Bool -> IF val.b THEN format.True ELSE format.False
            [] c.Type = IntT -> Sprintf(format.IntFmt, val)
            [] c.Type = Float -> Sprintf(format.FloatFmt, val)
            [] c.Type = String -> Sprintf(format.StringFmt, val)
            [] c.Type = Time ->
                 timeFormat(val.unix,
                            IF format.TimeLoc.isNil THEN 0
                            ELSE format.TimeLoc.offset,
                            format.TimeFmt)
            [] OTHER -> "Ooops: " \o Sprintf("%v", val),
        panic |-> FALSE]

(* ----------------------------------------------------------------------- *)
(* The dumpers.                                                            *)

errWrite == "write failed"

\* A csv.Writer on an underlying writer whose failAt'th operation (a Write
\* or the Flush), counted from 1, fails; 0 for a writer that never fails.
\* The bufio.Writer below it keeps the first error: every later operation
\* returns it and writes nothing.
Writer(failAt) ==
  [records |-> <<>>, err |-> nil, writes |-> 0, failAt |-> failAt,
   flushed |-> FALSE]

\* The writers a caller hands to a dumper.
FailAts == {0, 1, 2}

\* csv.Writer.Write(record): the writer afterwards, whose err is the error
\* returned.
csvWrite(wr, record) ==
  IF wr.err # nil \/ (wr.failAt # 0 /\ wr.writes + 1 >= wr.failAt)
    THEN [wr EXCEPT !.writes = @ + 1, !.err = errWrite]
  ELSE [wr EXCEPT !.writes = @ + 1, !.records = Append(@, record)]

\* csv.Writer.Flush(), after which csv.Writer.Error() is the err.
csvFlush(wr) ==
  IF wr.err # nil \/ (wr.failAt # 0 /\ wr.writes + 1 >= wr.failAt)
    THEN [wr EXCEPT !.writes = @ + 1, !.err = errWrite]
  ELSE [wr EXCEPT !.writes = @ + 1, !.flushed = TRUE]

\* field.Print(format, r) of every column of e, over the backing arrays h.
printRow(e, h, format, r) ==
  [col \in 1..Len(e.Columns) |->
     ColumnPrint(e.Columns[col], format,
                 retrieve(Index(h, e.Columns[col].Value.v, r),
                          e.Columns[col].Value.access, e.indir).val)]

\* The texts of the cells of a printed row.
texts(row) == [col \in 1..Len(row) |-> row[col].text]

\* The Name of every column of e.
header(e) == [i \in 1..Len(e.Columns) |-> e.Columns[i].Name]

\* The loop of CSVDumper.Dump over the rows from row r on, and its end.
RECURSIVE csvRows(_, _, _, _, _)
csvRows(e, h, format, r, wr) ==
  LET flushed(f) == [w |-> f, err |-> f.err, panic |-> FALSE]
      written(w2) ==
        IF w2.err # nil THEN [w |-> w2, err |-> w2.err, panic |-> FALSE]
        ELSE csvRows(e, h, format, r + 1, w2)
      printed(row) ==
        IF \E col \in 1..Len(row) : row[col].panic
          THEN [w |-> wr, err |-> nil, panic |-> TRUE]
        ELSE written(csvWrite(wr, texts(row)))
  IN  IF r < e.N THEN printed(printRow(e, h, format, r))
      ELSE flushed(csvFlush(wr))

\* CSVDumper.Dump as it would be if it wrote the header whatever OmitHeader
\* is.
csvDumpAlwaysHeader(d, e, h, format) ==
  csvRows(e, h, format, 0, csvWrite(d.Writer, header(e)))

\* CSVDumper.Dump dumps the fields from e to d: the writer afterwards, the
\* error returned and whether Dump panicked.
csvDump(d, e, h, format) ==
  csvRows(e, h, format, 0,
          IF ~d.OmitHeader THEN csvWrite(d.Writer, header(e))
          ELSE d.Writer)

\* TabDumper.Dump dumps the fields from e to d: the lines written to the
\* tabwriter, each the cells that the tabs separate, and whether Dump
\* panicked.  The Fprintln that ends the header line is outside the test of
\* OmitHeader.
tabDump(d, e, h, format) ==
  LET printed(rows) ==
        [lines |-> <<IF ~d.OmitHeader THEN header(e) ELSE <<>>>>
                     \o [r \in 1..e.N |-> texts(rows[r])],
         panic |-> \E r \in 1..e.N : \E col \in 1..Len(rows[r]) :
                      rows[r][col].panic]
  IN  printed([r \in 1..e.N |-> printRow(e, h, format, r - 1)])

(* ----------------------------------------------------------------------- *)
(* The column specs a caller passes for data of a type.                    *)

SpecsOf(typ) ==
  CASE typ = "[]T" ->
         {"APP", "B", "B.CP", "B.FE.G", "B.Fxyz.E", "A.X", "", "B.F().E"}
    [] typ = "[]*S" ->
         {"E", "BME", "EME", "ExtraArg", "WrongReturn", "D.Round", "BM()",
          "N", "D"}
    [] typ = "[]Some" ->
         {"Flt", "Method2", "IntP.X", "OtherP.Start"}
    [] typ = "[]*docS" -> {"E.F", "E.M", "E.N", "E.N.G"}
    [] typ = "[]**docU" -> {"G"}
    [] typ = "[]Column" -> {"Type", "MayFail"}
    [] OTHER -> {"A"}

\* The lists of at most MaxCols column specs for data of a type.
SpecLists(typ) ==
  UNION {[1..n -> {chars(s) : s \in SpecsOf(typ)}] : n \in 0..MaxCols}

\* The data a caller passes to Bind of an Extractor for typ: the slices of
\* that type, and data of other types: a slice, a struct, an int.
BindData(typ) ==
  {d \in Slices : TypeOf(d) = typ} \cup NoSlices
    \cup {SliceV(IF typ = "[]T" THEN "[]Some" ELSE "[]T",
                 IF typ = "[]T" THEN 3 ELSE 1, 0, 1)}

(* ----------------------------------------------------------------------- *)
(* The state machine: one Extractor and its caller.                        *)

VARIABLES
  heap,   \* the backing arrays of the collections
  e,      \* the caller's Extractor, as NewExtractor returned it
  err,    \* the error NewExtractor returned
  pc,     \* "start", "ready" (e is bound), "failed" or "panicked"
  bound,  \* the data of the last NewExtractor or Bind that returned
  prev,   \* the data that was bound before that
  op,     \* the last call and its arguments
  out,    \* what the last call of a column's Value returned
  w,      \* what the last Print returned or the last Dump wrote and returned
  made,   \* the paths NewExtractor compiled, and where each column of e was
  rd      \* the Value call each concurrent reader is in

vars == <<heap, e, err, pc, bound, prev, op, out, w, made, rd>>

NoData == SliceV("", 0, 0, 0)
NoOut == [val |-> Absent, calls |-> <<>>, by |-> "none"]
NoOp ==
  [name |-> "none", data |-> NoData, specs |-> <<>>, col |-> 0, row |-> 0,
   format |-> DefaultFormat, OmitHeader |-> FALSE, failAt |-> 0]
NoW ==
  [text |-> "", panic |-> FALSE, records |-> <<>>, err |-> nil,
   flushed |-> FALSE]
NoMade == [paths |-> <<>>, at |-> <<>>]

\* The readers of an Extractor, and a reader that is in no call.  A reader
\* in a call holds the value function f it called, the value v its walk is
\* at, the number k of the step it takes next and, once retrieve is done,
\* the value val that the call returns.
Readers == {"r1", "r2"}
idle ==
  [pc |-> "idle", col |-> 0, row |-> 0, f |-> NoValue, v |-> Absent, k |-> 0,
   val |-> Absent]

\* The paths of the columns of ex in their order, each at its own place.
madeOf(ex) ==
  [paths |-> [c \in 1..Len(ex.Columns) |-> ex.Columns[c].access],
   at |-> [c \in 1..Len(ex.Columns) |-> c]]

Init ==
  /\ heap = arrays
  /\ e = NoExtractor
  /\ err = nil
  /\ pc = "start"
  /\ bound = NoData
  /\ prev = NoData
  /\ op = NoOp
  /\ out = NoOut
  /\ w = NoW
  /\ made = NoMade
  /\ rd = [r \in Readers |-> idle]

\* ex, err := NewExtractor(data, columnSpecs...)
NewExtractor ==
  /\ pc = "start"
  /\ \E data \in Slices \cup NoSlices :
       \E columnSpecs \in SpecLists(TypeOf(data)) :
         \E r \in {newExtractor(data, columnSpecs)} :
             /\ op' = [NoOp EXCEPT !.name = "NewExtractor", !.data = data,
                                   !.specs = columnSpecs]
             /\ IF r.panic
                  THEN /\ pc' = "panicked"
                       /\ UNCHANGED <<e, err, bound, made>>
                ELSE IF r.err # nil
                  THEN /\ pc' = "failed"
                       /\ e' = r.ex
                       /\ err' = r.err
                       /\ UNCHANGED <<bound, made>>
                ELSE /\ pc' = "ready"
                     /\ e' = r.ex
                     /\ err' = nil
                     /\ bound' = data
                     /\ made' = madeOf(r.ex)
  /\ out' = NoOut
  /\ w' = NoW
  /\ UNCHANGED <<heap, prev, rd>>

\* Bind as it would be without the comparison of the types.
BindUnchecked ==
  /\ pc = "ready"
  /\ \E data \in BindData(e.typ) :
       /\ op' = [NoOp EXCEPT !.name = "Bind", !.data = data]
       /\ IF Kind(TypeOf(data)) = "Slice"
            THEN /\ e' = bindSOM(e, data)
                 /\ bound' = data
                 /\ prev' = bound
                 /\ UNCHANGED pc
          ELSE /\ pc' = "panicked"
               /\ UNCHANGED <<e, bound, prev>>
  /\ out' = NoOut
  /\ w' = NoW
  /\ UNCHANGED <<heap, err, made, rd>>

\* e.Bind(data)
Bind ==
  /\ pc = "ready"
  /\ \E data \in BindData(e.typ) :
       /\ op' = [NoOp EXCEPT !.name = "Bind", !.data = data]
       /\ IF TypeOf(data) # e.typ
            THEN /\ pc' = "panicked"
                 /\ UNCHANGED <<e, bound, prev>>
          ELSE IF e.som
            THEN /\ e' = bindSOM(e, data)
                 /\ bound' = data
                 /\ prev' = bound
                 /\ UNCHANGED pc
          ELSE /\ pc' = "panicked"
               /\ UNCHANGED <<e, bound, prev>>
  /\ out' = NoOut
  /\ w' = NoW
  /\ UNCHANGED <<heap, err, made, rd>>

\* e.Columns[col].Value(row), col counted from 1 and row from 0
Value ==
  /\ pc = "ready"
  /\ \E col \in 1..Len(e.Columns) :
       LET f == e.Columns[col].Value
       IN  \E row \in 0..(f.v.len - 1) :
             /\ op' = [NoOp EXCEPT !.name = "Value", !.col = col, !.row = row]
             /\ out' = retrieve(Index(heap, f.v, row), f.access, e.indir)
  /\ w' = NoW
  /\ UNCHANGED <<heap, e, err, pc, bound, prev, made, rd>>

\* e.Columns[col].Name = "DayOfMonth": the caller renames a column, at most
\* MaxRenames columns of an Extractor.
Rename ==
  /\ pc = "ready"
  /\ Cardinality({c \in 1..Len(e.Columns) :
                    e.Columns[c].Name = "DayOfMonth"}) < MaxRenames
  /\ \E col \in 1..Len(e.Columns) :
       /\ e.Columns[col].Name # "DayOfMonth"
       /\ op' = [NoOp EXCEPT !.name = "Rename", !.col = col]
       /\ e' = [e EXCEPT !.Columns[col].Name = "DayOfMonth"]
  /\ out' = NoOut
  /\ w' = NoW
  /\ UNCHANGED <<heap, err, pc, bound, prev, made, rd>>

Next == NewExtractor \/ Bind \/ Value \/ Rename

Spec == Init /\ [][Next]_vars

\* e.Columns[col].Print(format, row), col counted from 1 and row from 0
PrintColumn ==
  /\ pc = "ready"
  /\ \E col \in 1..Len(e.Columns), format \in Formats :
       LET f == e.Columns[col].Value
           printed(val, p) ==
             /\ out' = val
             /\ w' = [NoW EXCEPT !.text = p.text, !.panic = p.panic]
             /\ pc' = IF p.panic THEN "panicked" ELSE pc
           valued(val) ==
             printed(val, ColumnPrint(e.Columns[col], format, val.val))
       IN  \E row \in 0..(f.v.len - 1) :
             /\ op' = [NoOp EXCEPT !.name = "Print", !.col = col,
                                   !.row = row, !.format = format]
             /\ valued(retrieve(Index(heap, f.v, row), f.access, e.indir))
  /\ UNCHANGED <<heap, e, err, bound, prev, made, rd>>

\* CSVDumper{Writer: writer, OmitHeader: omit}.Dump(e, format) with a new
\* writer
CSVDump ==
  /\ pc = "ready"
  /\ \E format \in Formats, omit \in BOOLEAN, failAt \in FailAts :
       \E r \in {csvDump([Writer |-> Writer(failAt), OmitHeader |-> omit],
                         e, heap, format)} :
         /\ op' = [NoOp EXCEPT !.name = "CSVDump", !.format = format,
                               !.OmitHeader = omit, !.failAt = failAt]
         /\ w' = [NoW EXCEPT !.records = r.w.records, !.err = r.err,
                             !.panic = r.panic, !.flushed = r.w.flushed]
         /\ pc' = IF r.panic THEN "panicked" ELSE pc
  /\ out' = NoOut
  /\ UNCHANGED <<heap, e, err, bound, prev, made, rd>>

\* TabDumper{Writer: writer, OmitHeader: omit}.Dump(e, format) with a new
\* tabwriter
TabDump ==
  /\ pc = "ready"
  /\ \E format \in Formats, omit \in BOOLEAN :
       \E r \in {tabDump([OmitHeader |-> omit], e, heap, format)} :
         /\ op' = [NoOp EXCEPT !.name = "TabDump", !.format = format,
                               !.OmitHeader = omit]
         /\ w' = [NoW EXCEPT !.records = r.lines, !.panic = r.panic]
         /\ pc' = IF r.panic THEN "panicked" ELSE pc
  /\ out' = NoOut
  /\ UNCHANGED <<heap, e, err, bound, prev, made, rd>>

\* The calls of a caller who prints and dumps.
NextOut ==
  NewExtractor \/ Bind \/ Value \/ PrintColumn \/ CSVDump \/ TabDump

SpecOut == Init /\ [][NextOut]_vars

(* ----------------------------------------------------------------------- *)
(* Properties.                                                             *)

\* What one step s makes of v, told from the step's field or accessor and
\* its pointer layers: the value it reaches, or that it fails.
stepOn(v, s) ==
  LET z == Call(s.method, v)
      down == IF s.method.valid THEN z[1] ELSE v.fields[s.field + 1]
      fl == follow(down, s.indir)
  IN  IF s.method.valid /\ Len(z) = 2 /\ ~z[2].isNil
        THEN [ok |-> FALSE, v |-> v]
      ELSE IF fl.isNil THEN [ok |-> FALSE, v |-> v]
      ELSE [ok |-> TRUE, v |-> fl.v]

\* The first step from step k on that fails on v, or 0 when none does.
RECURSIVE firstFailure(_, _, _)
firstFailure(v, steps, k) ==
  IF k > Len(steps) THEN 0
  ELSE IF ~stepOn(v, steps[k]).ok THEN k
  ELSE firstFailure(stepOn(v, steps[k]).v, steps, k + 1)

\* The record of row i of slice v behind its ptrs pointer layers.
recordOf(v, i, ptrs) == follow(Index(heap, v, i), ptrs)

\* The walk of the last Value call: the record it started from and the
\* first step that fails on it.
lastWalk ==
  LET f == e.Columns[op.col].Value
      el == recordOf(f.v, op.row, e.indir)
  IN  [steps |-> f.access, isNil |-> el.isNil,
       k |-> IF el.isNil THEN 0 ELSE firstFailure(el.v, f.access, 1)]

\* C1: when steps 1..k-1 of a walk succeed and step k meets a nil pointer
\* or its accessor returns an error, the walk yields absent and has called
\* no accessor of a step after k.
StopsAtFirstFailure ==
  (op.name = "Value" /\ lastWalk.k > 0) =>
    /\ out.val = Absent
    /\ \A n \in 1..Len(out.calls) : out.calls[n] <= lastWalk.k

\* A walk failed at a step that an accessor step follows.
StopsAtFirstFailureWitness ==
  /\ op.name = "Value"
  /\ lastWalk.k > 0
  /\ \E j \in (lastWalk.k + 1)..Len(lastWalk.steps) :
        lastWalk.steps[j].method.valid
  /\ out.val = Absent

\* What executing the compiled path of column c yields on row i of data.
pathValue(c, data, i) ==
  retrieve(Index(heap, data, i), e.Columns[c].access, e.indir).val

\* What the value function of column c yields for row i.
valueAt(c, i) ==
  LET f == e.Columns[c].Value
  IN  retrieve(Index(heap, f.v, i), f.access, e.indir).val

\* C2: after NewExtractor and any Binds, every column's Value(i) is what
\* the column's compiled path yields on element i of the collection bound
\* last, for every row i < N.
ValuesOfLastBound ==
  pc = "ready" =>
    \A c \in 1..Len(e.Columns) : \A i \in 0..(e.N - 1) :
      /\ e.Columns[c].Value.set
      /\ e.Columns[c].Value.v = bound
      /\ i < bound.len
      /\ valueAt(c, i) = pathValue(c, bound, i)

\* After a Bind to a collection of another length, Value returned a value
\* that differs from the one the collection bound before has in that row.
ValuesOfLastBoundWitness ==
  /\ pc = "ready"
  /\ op.name = "Value"
  /\ prev # NoData
  /\ prev.len # bound.len
  /\ op.row < prev.len
  /\ out.val # Absent
  /\ out.val = pathValue(op.col, bound, op.row)
  /\ out.val # pathValue(op.col, prev, op.row)

\* C3: N is the length of the collection bound last.
NIsLengthOfBound == pc = "ready" => e.N = bound.len

\* A Bind to a collection of another length has set N.
NIsLengthOfBoundWitness ==
  /\ pc = "ready"
  /\ op.name = "Bind"
  /\ prev.len # bound.len
  /\ e.N = bound.len

\* What a column spec means for a start type, told from the types' fields
\* and accessors alone: walking the segments from segment n on, the type the
\* spec ends in, or why a segment cannot be taken: "unresolved" when it
\* names neither a field nor an accessor of the current type, "signature"
\* when it names an accessor that takes an argument or does not return one
\* value or one value and an error.
RECURSIVE walkType(_, _, _)
walkType(typ, elements, n) ==
  IF n > Len(elements) THEN [ok |-> TRUE, typ |-> typ, why |-> ""]
  ELSE
    LET cur == elements[n]
        fs == goTypes(typ).Fields
        ms == goTypes(typ).Methods
        isField == Kind(typ) = "Struct" /\ \E f \in 1..Len(fs) : fs[f].Name = cur
        isMethod == \E k \in 1..Len(ms) : ms[k].Name = cur
        ft == fs[CHOOSE f \in 1..Len(fs) :
                   fs[f].Name = cur /\ \A g \in 1..(f-1) : fs[g].Name # cur].Type
        m == ms[CHOOSE k \in 1..Len(ms) : ms[k].Name = cur]
        good == /\ m.NumIn = 1
                /\ \/ Len(m.Out) = 1
                   \/ Len(m.Out) = 2 /\ m.Out[2] = "error"
    IN  IF isField THEN walkType(stripPtr(ft, 0).typ, elements, n + 1)
        ELSE IF ~isMethod THEN [ok |-> FALSE, typ |-> typ, why |-> "unresolved"]
        ELSE IF ~good THEN [ok |-> FALSE, typ |-> typ, why |-> "signature"]
        ELSE walkType(m.Out[1], elements, n + 1)

\* The type of the records of the data of the last NewExtractor call.
recordType == stripPtr(Elem(TypeOf(op.data)), 0).typ

\* The last call was NewExtractor for a slice.
newForSlice == op.name = "NewExtractor" /\ Kind(TypeOf(op.data)) = "Slice"

\* What spec k of the last NewExtractor call means.
specWalk(k) == walkType(recordType, Split(op.specs[k], "."), 1)

\* Spec k of the last NewExtractor call is one that compiles: its segments
\* resolve and its final type has a value kind.
specIsGood(k) == specWalk(k).ok /\ superType(specWalk(k).typ) # NA

\* C4: when a segment of a column spec names neither a field nor an accessor
\* of the current type, compilation returns an error: NewExtractor does not
\* crash and returns no Extractor with columns.
UnresolvedSegmentIsError ==
  (newForSlice /\ \E k \in 1..Len(op.specs) : specWalk(k).why = "unresolved")
    => (pc = "failed" /\ err # nil)

\* C5: a spec whose final type has no value kind is rejected by
\* NewExtractor with an error, every column of an Extractor has a Type
\* other than NA, and no Value call ends at a value without type.
FinalTypeHasKind ==
  /\ newForSlice =>
       \A k \in 1..Len(op.specs) :
         ( /\ \A j \in 1..(k-1) : specIsGood(j)
           /\ specWalk(k).ok
           /\ superType(specWalk(k).typ) = NA )
         => (pc = "failed" /\ err \in {errFinalField, errFinalMethod})
  /\ pc = "ready" => \A c \in 1..Len(e.Columns) : e.Columns[c].Type # NA
  /\ out.by # "no type"

\* NewExtractor rejected a spec that ends in a field without value kind.
FinalTypeHasKindWitness ==
  /\ newForSlice
  /\ pc = "failed"
  /\ err = errFinalField
  /\ \E k \in 1..Len(op.specs) :
       specWalk(k).ok /\ superType(specWalk(k).typ) = NA

\* The signature of the accessor of call step s is one of the two accepted:
\* no argument besides the receiver, and one result or one result and an
\* error.
acceptedAccessor(s) ==
  LET m == MethodByName(s.method.recv, s.method.name).m
  IN  /\ m.NumIn = 1
      /\ \/ Len(m.Out) = 1
         \/ Len(m.Out) = 2 /\ m.Out[2] = "error"

\* C6: every call step of a compiled path has an accepted signature, and a
\* spec with a segment that names an accessor of another signature makes
\* NewExtractor return an error, wherever the segment stands.
OnlyAcceptedAccessors ==
  /\ pc = "ready" =>
       \A c \in 1..Len(e.Columns) : \A k \in 1..Len(e.Columns[c].access) :
         isMethodCall(e.Columns[c].access[k]) =>
           acceptedAccessor(e.Columns[c].access[k])
  /\ newForSlice =>
       \A k \in 1..Len(op.specs) :
         ((\A j \in 1..(k-1) : specIsGood(j)) /\ specWalk(k).why = "signature")
           => (pc = "failed" /\ err \in {errMethod, errFinalMethod})

\* C7: when one of the column specs fails to compile, NewExtractor returns
\* an error and no Extractor with columns.
FailedSpecIsError ==
  (newForSlice /\ \E k \in 1..Len(op.specs) : ~specIsGood(k))
    => /\ pc = "failed"
       /\ err # nil
       /\ e = NoExtractor

\* C8: a Bind with data of another type than the Extractor's panics and
\* leaves the Extractor, its N and its columns' value functions, as it was.
BindOfOtherTypePanics ==
  [][(pc = "ready" /\ op'.name = "Bind" /\ TypeOf(op'.data) # e.typ)
       => (pc' = "panicked" /\ e' = e /\ bound' = bound)]_vars

\* A Bind has panicked and the Extractor still holds the earlier binding.
BindOfOtherTypePanicsWitness ==
  /\ pc = "panicked"
  /\ op.name = "Bind"
  /\ TypeOf(op.data) # e.typ
  /\ Len(e.Columns) > 0
  /\ e.N = bound.len
  /\ bound.len > 0
  /\ \A c \in 1..Len(e.Columns) : e.Columns[c].Value.v = bound

\* C9: a successful NewExtractor returns one column per spec, in the order
\* of the specs: column k holds the steps of spec k and ends in the type
\* spec k means.
ColumnPerSpecInOrder ==
  (newForSlice /\ pc = "ready") =>
    /\ Len(e.Columns) = Len(op.specs)
    /\ \A k \in 1..Len(op.specs) :
         LET acc == e.Columns[k].access
         IN  /\ acc = buildSteps(recordType, op.specs[k]).steps
             /\ [j \in 1..Len(acc) |-> acc[j].name] = Split(op.specs[k], ".")
             /\ acc[Len(acc)].typ = specWalk(k).typ

\* NewExtractor returned an Extractor for two different specs.
ColumnPerSpecInOrderWitness ==
  /\ newForSlice
  /\ pc = "ready"
  /\ Len(op.specs) = 2
  /\ op.specs[1] # op.specs[2]
  /\ Len(e.Columns) = 2

\* Whether one of the n pointer layers from p on is nil.
RECURSIVE hasNilLayer(_, _)
hasNilLayer(p, n) ==
  IF n = 0 THEN FALSE ELSE p.isNil \/ hasNilLayer(p.elem, n - 1)

\* The value behind n non-nil pointer layers from p on.
RECURSIVE pointee(_, _)
pointee(p, n) == IF n = 0 THEN p ELSE pointee(p.elem, n - 1)

\* val is the Go value v read as a column value: the same bool, number,
\* string or time.
sameValue(val, v) ==
  CASE superType(TypeOf(v)) = Bool -> val = BoolV(v.b)
    [] superType(TypeOf(v)) = IntT -> val = WideV("int64", v.i)
    [] superType(TypeOf(v)) = Float -> val = FloatV(v.f)
    [] superType(TypeOf(v)) = String -> val = StringV(v.s)
    [] superType(TypeOf(v)) = Time -> val = v
    [] OTHER -> FALSE

\* The value the steps from step k on reach from v when none of them fails.
RECURSIVE reached(_, _, _)
reached(v, steps, k) ==
  IF k > Len(steps) THEN v ELSE reached(stepOn(v, steps[k]).v, steps, k + 1)

\* The steps of column c before its last step, and its last step.
stepsBefore(c) == SubSeq(e.Columns[c].access, 1, Len(e.Columns[c].access) - 1)
lastStep(c) == e.Columns[c].access[Len(e.Columns[c].access)]

\* The path of column c ends in a field step with at least one indirection.
pointerField(c) == ~isMethodCall(lastStep(c)) /\ lastStep(c).indir >= 1

\* The steps before the last step of column c all succeed on row i of the
\* bound data.
reachesField(c, i) ==
  /\ ~recordOf(bound, i, e.indir).isNil
  /\ firstFailure(recordOf(bound, i, e.indir).v, stepsBefore(c), 1) = 0

\* The field of the last step of column c in row i of the bound data.
fieldOf(c, i) ==
  reached(recordOf(bound, i, e.indir).v, stepsBefore(c), 1)
    .fields[lastStep(c).field + 1]

\* C10: a field step with n >= 1 indirections yields absent exactly on the
\* records where one of the field's n pointer layers is nil, and the
\* innermost pointee on every other record.
PointerFieldValue ==
  pc = "ready" =>
    \A c \in 1..Len(e.Columns) : \A i \in 0..(bound.len - 1) :
      (pointerField(c) /\ reachesField(c, i)) =>
        IF hasNilLayer(fieldOf(c, i), lastStep(c).indir)
          THEN valueAt(c, i) = Absent
        ELSE sameValue(valueAt(c, i),
                       pointee(fieldOf(c, i), lastStep(c).indir))

\* Value returned absent for a record whose **int field points to a nil
\* pointer, and another row of the same column has the value 13.
PointerFieldValueWitness ==
  /\ pc = "ready"
  /\ op.name = "Value"
  /\ pointerField(op.col)
  /\ lastStep(op.col).indir = 2
  /\ ~fieldOf(op.col, op.row).isNil
  /\ hasNilLayer(fieldOf(op.col, op.row), 2)
  /\ out.val = Absent
  /\ \E j \in 0..(bound.len - 1) : valueAt(op.col, j) = IntV("int64", 13)

\* The path of column c ends in an accessor that returns a value and an
\* error, told from the accessor's signature.
fallibleAccessor(c) ==
  /\ isMethodCall(lastStep(c))
  /\ Len(MethodByName(lastStep(c).method.recv,
                      lastStep(c).method.name).m.Out) = 2

\* What the accessor of the last step of column c returns on the record of
\* row i of the bound data.
returnsOf(c, i) ==
  Call(lastStep(c).method,
       reached(recordOf(bound, i, e.indir).v, stepsBefore(c), 1))

\* C11: a column whose path ends in an accessor returning a value and an
\* error yields absent exactly on the rows where the accessor returns a
\* non-nil error and the returned value on every other row, and a Value call
\* ends neither in an error nor in a crash.
FailingAccessorIsAbsent ==
  /\ pc = "ready" =>
       \A c \in 1..Len(e.Columns) : \A i \in 0..(bound.len - 1) :
         (fallibleAccessor(c) /\ reachesField(c, i)) =>
           IF ~returnsOf(c, i)[2].isNil
             THEN valueAt(c, i) = Absent
           ELSE sameValue(valueAt(c, i), returnsOf(c, i)[1])
  /\ op.name = "Value" => (pc = "ready" /\ err = nil)

\* Value returned absent for a row whose accessor returned an error, and
\* another row of the same column has the accessor's value.
FailingAccessorIsAbsentWitness ==
  /\ pc = "ready"
  /\ op.name = "Value"
  /\ fallibleAccessor(op.col)
  /\ reachesField(op.col, op.row)
  /\ ~returnsOf(op.col, op.row)[2].isNil
  /\ out.val = Absent
  /\ out.by = "access failed"
  /\ \E j \in 0..(bound.len - 1) :
       /\ reachesField(op.col, j)
       /\ returnsOf(op.col, j)[2].isNil
       /\ valueAt(op.col, j) # Absent

\* Whether a pointer layer of one of the steps from step k on is nil on the
\* way down from v.
RECURSIVE nilOnPath(_, _, _)
nilOnPath(v, steps, k) ==
  IF k > Len(steps) THEN FALSE
  ELSE
    LET s == steps[k]
        down == IF s.method.valid THEN Call(s.method, v)[1]
                ELSE v.fields[s.field + 1]
    IN  IF hasNilLayer(down, s.indir) THEN TRUE
        ELSE nilOnPath(pointee(down, s.indir), steps, k + 1)

\* The path of column c has several segments, passes through a pointer
\* before its last segment, and nothing else of it can fail: no accessor of
\* it returns an error and its last segment is no pointer.
throughPointer(c) ==
  LET acc == e.Columns[c].access
  IN  /\ Len(acc) >= 2
      /\ \E k \in 1..(Len(acc) - 1) : acc[k].indir >= 1
      /\ lastStep(c).indir = 0
      /\ \A k \in 1..Len(acc) :
           isMethodCall(acc[k]) =>
             Len(MethodByName(acc[k].method.recv, acc[k].method.name).m.Out) = 1

\* An intermediate pointer of column c is nil in row i of data.
nilBefore(c, data, i) ==
  nilOnPath(recordOf(data, i, e.indir).v, stepsBefore(c), 1)

\* C12: a column whose path passes through an intermediate pointer yields
\* absent exactly on the rows where that pointer is nil and the value the
\* path reaches on the other rows, and a column none of whose steps fails
\* on a row yields a value there, whatever the other columns yield.
AbsencePerCell ==
  pc = "ready" =>
    /\ \A c \in 1..Len(e.Columns) : \A i \in 0..(bound.len - 1) :
         ~recordOf(bound, i, e.indir).isNil =>
           /\ throughPointer(c) =>
                IF nilBefore(c, bound, i) THEN valueAt(c, i) = Absent
                ELSE sameValue(valueAt(c, i),
                               reached(recordOf(bound, i, e.indir).v,
                                       e.Columns[c].access, 1))
           /\ ~nilOnPath(recordOf(bound, i, e.indir).v, e.Columns[c].access, 1)
                /\ firstFailure(recordOf(bound, i, e.indir).v,
                                e.Columns[c].access, 1) = 0
                => valueAt(c, i) # Absent
    /\ (op.name = "Value" /\ throughPointer(op.col)
          /\ ~recordOf(bound, op.row, e.indir).isNil)
         => (out.val = Absent <=> nilBefore(op.col, bound, op.row))

\* Value returned absent for a row whose intermediate pointer is nil, while
\* the same column has a value in another row and another column has a
\* value in the same row.
AbsencePerCellWitness ==
  /\ pc = "ready"
  /\ op.name = "Value"
  /\ throughPointer(op.col)
  /\ ~recordOf(bound, op.row, e.indir).isNil
  /\ nilBefore(op.col, bound, op.row)
  /\ out.val = Absent
  /\ \E j \in 0..(bound.len - 1) : valueAt(op.col, j) # Absent
  /\ \E c \in 1..Len(e.Columns) : c # op.col /\ valueAt(c, op.row) # Absent

\* C13: when the bound collection holds pointers to records, a row whose
\* element is nil at one of the pointer levels counted at construction
\* yields absent for every column without any step being executed, and every
\* other row yields what the path yields on the record pointed to.
NilElementIsAbsent ==
  /\ pc = "ready" =>
       /\ e.indir = stripPtr(Elem(e.typ), 0).indir
       /\ \A c \in 1..Len(e.Columns) : \A i \in 0..(bound.len - 1) :
            IF hasNilLayer(Index(heap, bound, i), e.indir)
              THEN valueAt(c, i) = Absent
            ELSE valueAt(c, i) =
                   retrieve(pointee(Index(heap, bound, i), e.indir),
                            e.Columns[c].access, 0).val
  /\ (op.name = "Value" /\ hasNilLayer(Index(heap, bound, op.row), e.indir))
       => (out.val = Absent /\ out.calls = <<>> /\ out.by = "nil element")

\* Value returned absent for an element that points to a nil pointer, and
\* another row of the collection has a value.
NilElementIsAbsentWitness ==
  /\ pc = "ready"
  /\ op.name = "Value"
  /\ e.indir = 2
  /\ ~Index(heap, bound, op.row).isNil
  /\ hasNilLayer(Index(heap, bound, op.row), 2)
  /\ out.val = Absent
  /\ out.by = "nil element"
  /\ \E j \in 0..(bound.len - 1) : valueAt(op.col, j) = IntV("int64", 42)

\* The strings names joined by sep.
RECURSIVE Join(_, _)
Join(names, sep) ==
  IF Len(names) = 0 THEN ""
  ELSE IF Len(names) = 1 THEN names[1]
  ELSE names[1] \o sep \o Join(Tail(names), sep)

\* C14: the Name of a column as NewExtractor returns it is the names of all
\* segments of its spec joined by '.', never the last segment alone.
NameIsJoinedSegments ==
  (newForSlice /\ pc = "ready") =>
    \A k \in 1..Len(e.Columns) :
      e.Columns[k].Name = Join(Split(op.specs[k], "."), ".")

\* The characters of a spec without its parentheses, and whether segment j
\* of spec k of the last NewExtractor call is written with a trailing "()".
bare(spec) == SelectSeq(spec, LAMBDA c : c \notin {"(", ")"})
writtenAsCall(k, j) ==
  Split(op.specs[k], ".")[j] = Split(bare(op.specs[k]), ".")[j] \o "()"

\* What spec k of the last NewExtractor call means when a trailing "()" of
\* a segment denotes the call of the accessor of that name.
callSpecWalk(k) == walkType(recordType, Split(bare(op.specs[k]), "."), 1)

\* C15: a spec of which a segment is written with a trailing "()" compiles
\* when the accessor exists: NewExtractor returns a column whose step for
\* that segment is a call step, and the column's name holds no "()".
CallSuffixCompiles ==
  ( /\ newForSlice
    /\ \A k \in 1..Len(op.specs) :
         callSpecWalk(k).ok /\ superType(callSpecWalk(k).typ) # NA
    /\ \E k \in 1..Len(op.specs) : op.specs[k] # bare(op.specs[k]) )
  => /\ pc = "ready"
     /\ Len(e.Columns) = Len(op.specs)
     /\ \A k \in 1..Len(op.specs) :
          LET names == Split(bare(op.specs[k]), ".")
          IN  /\ e.Columns[k].Name \in {Join(names, "."), names[Len(names)]}
              /\ Len(e.Columns[k].access) = Len(names)
              /\ \A j \in 1..Len(names) :
                   writtenAsCall(k, j) =>
                     isMethodCall(e.Columns[k].access[j])

\* The values of all rows of column c of extractor ex over heap hp.
valuesOf(ex, hp, c) ==
  [i \in 0..(ex.N - 1) |->
     retrieve(Index(hp, ex.Columns[c].Value.v, i),
              ex.Columns[c].Value.access, ex.indir).val]

\* C16: a rename of a column changes the name and nothing else: the number
\* of columns, every column's path, Type, MayFail flag and values stay, and
\* so do N, the bound data and the names of the other columns; a later Bind
\* keeps every name, path and Type and binds each column by its path.
RenameChangesOnlyName ==
  [][ /\ op'.name = "Rename" =>
           /\ Len(e'.Columns) = Len(e.Columns)
           /\ e'.N = e.N /\ e'.typ = e.typ /\ e'.indir = e.indir
           /\ bound' = bound /\ pc' = pc
           /\ \A c \in 1..Len(e.Columns) :
                /\ e'.Columns[c].access = e.Columns[c].access
                /\ e'.Columns[c].Type = e.Columns[c].Type
                /\ e'.Columns[c].MayFail = e.Columns[c].MayFail
                /\ e'.Columns[c].Value = e.Columns[c].Value
                /\ valuesOf(e', heap', c) = valuesOf(e, heap, c)
                /\ c # op'.col => e'.Columns[c].Name = e.Columns[c].Name
      /\ (op'.name = "Bind" /\ pc' = "ready") =>
           /\ Len(e'.Columns) = Len(e.Columns)
           /\ e'.indir = e.indir
           /\ \A c \in 1..Len(e.Columns) :
                /\ e'.Columns[c].Name = e.Columns[c].Name
                /\ e'.Columns[c].access = e.Columns[c].access
                /\ e'.Columns[c].Type = e.Columns[c].Type
                /\ e'.Columns[c].Value =
                     ValueFunc(bound', e.Columns[c].access)
    ]_vars

\* A Bind to other data has kept the name a rename gave a column, and the
\* column has a value.
RenameChangesOnlyNameWitness ==
  /\ pc = "ready"
  /\ op.name = "Bind"
  /\ prev # bound
  /\ \E c \in 1..Len(e.Columns) :
       /\ e.Columns[c].Name = "DayOfMonth"
       /\ lastStep(c).name # "DayOfMonth"
       /\ \E i \in 0..(e.N - 1) : valueAt(c, i) # Absent

\* The unsigned integer kinds.
isUnsigned(t) == Kind(t) \in {"Uint", "Uint8", "Uint16", "Uint32", "Uint64"}

\* C17: a spec that ends in an unsigned integer type compiles to a column
\* of Type Int, and the column's value on every row its path reaches is the
\* stored magnitude.
UnsignedIsInteger ==
  ( /\ newForSlice
    /\ \A k \in 1..Len(op.specs) :
         /\ specWalk(k).ok
         /\ superType(specWalk(k).typ) # NA \/ isUnsigned(specWalk(k).typ)
    /\ \E k \in 1..Len(op.specs) : isUnsigned(specWalk(k).typ) )
  => /\ pc = "ready"
     /\ Len(e.Columns) = Len(op.specs)
     /\ \A k \in 1..Len(op.specs) :
          isUnsigned(specWalk(k).typ) =>
            /\ e.Columns[k].Type = IntT
            /\ \A i \in 0..(bound.len - 1) :
                 ( /\ ~recordOf(bound, i, e.indir).isNil
                   /\ firstFailure(recordOf(bound, i, e.indir).v,
                                   e.Columns[k].access, 1) = 0 )
                 => /\ valueAt(k, i) # Absent
                    /\ valueAt(k, i).i =
                         wide(reached(recordOf(bound, i, e.indir).v,
                                      e.Columns[k].access, 1).u)

\* C18: a column whose path ends in time.Duration has the Type Duration,
\* not Int, and its values are durations, not plain integers.
DurationIsDuration ==
  pc = "ready" =>
    \A c \in 1..Len(e.Columns) :
      lastStep(c).typ = "time.Duration" =>
        /\ e.Columns[c].Type = "Duration"
        /\ e.Columns[c].Type # IntT
        /\ \A i \in 0..(e.N - 1) :
             valueAt(c, i) # Absent => TypeOf(valueAt(c, i)) = "time.Duration"

\* Type t has the string conversion: a method String that takes no argument
\* and returns a string.
hasString(t) ==
  /\ MethodByName(t, "String").ok
  /\ MethodByName(t, "String").m.NumIn = 1
  /\ MethodByName(t, "String").m.Out = <<"string">>

\* C19: a spec whose final type has no value kind but has the string
\* conversion compiles: its column has the Type String and a path of the
\* steps of the spec's segments followed by one call step of the conversion.
StringerIsText ==
  ( /\ newForSlice
    /\ \A k \in 1..Len(op.specs) :
         /\ specWalk(k).ok
         /\ superType(specWalk(k).typ) # NA \/ hasString(specWalk(k).typ)
    /\ \E k \in 1..Len(op.specs) :
         superType(specWalk(k).typ) = NA /\ hasString(specWalk(k).typ) )
  => /\ pc = "ready"
     /\ Len(e.Columns) = Len(op.specs)
     /\ \A k \in 1..Len(op.specs) :
          (superType(specWalk(k).typ) = NA /\ hasString(specWalk(k).typ)) =>
            LET acc == e.Columns[k].access
                names == Split(op.specs[k], ".")
            IN  /\ e.Columns[k].Type = String
                /\ Len(acc) = Len(names) + 1
                /\ \A j \in 1..Len(names) : acc[j].name = names[j]
                /\ isMethodCall(acc[Len(acc)])
                /\ acc[Len(acc)].method.name = "String"

\* C20: a Bind that returns changes N and the value function of each column
\* and nothing else: the number and order of the columns, each column's
\* Name, Type, MayFail flag and steps, and the Extractor's type and
\* indirection count are what they were before.
BindKeepsCompiled ==
  [][(op'.name = "Bind" /\ pc' = "ready") =>
       /\ e'.typ = e.typ /\ e'.indir = e.indir /\ e'.som = e.som
       /\ e'.N = op'.data.len
       /\ DOMAIN e'.Columns = DOMAIN e.Columns
       /\ \A c \in 1..Len(e.Columns) :
            /\ e'.Columns[c] = [e.Columns[c] EXCEPT !.Value = e'.Columns[c].Value]
            /\ e'.Columns[c].Value = ValueFunc(op'.data, e.Columns[c].access)
     ]_vars

\* A Bind to data of another length of an Extractor with
\* two columns of which one may fail and one may not.
BindKeepsCompiledWitness ==
  /\ pc = "ready"
  /\ op.name = "Bind"
  /\ prev # NoData
  /\ prev.len # bound.len
  /\ Len(e.Columns) = 2
  /\ e.Columns[1].MayFail # e.Columns[2].MayFail
  /\ e.Columns[1].access # e.Columns[2].access
  /\ \A c \in 1..2 : e.Columns[c].Value.v = bound

(* ----------------------------------------------------------------------- *)
(* A caller who assigns elements of the collection between the calls.      *)

\* The elements of the backing arrays h that are not what they were at
\* first.
assigned(h) ==
  LET changed(a) ==
        {x \in (1..Len(h)) \X (1..3) :
           /\ x[2] <= Len(h[x[1]].elems)
           /\ h[x[1]].elems[x[2]] # a[x[1]].elems[x[2]]}
  IN  changed(arrays)

\* The assignments data[i] = data[j] the caller makes, as <<i, j>>.
SetPairs == {<<0, 1>>}

\* data[i] = data[j] on the slice data that is bound: the caller assigns
\* one element of the collection.
Set ==
  /\ pc = "ready"
  /\ Cardinality(assigned(heap)) < MaxSets
  /\ \E i \in 0..(bound.len - 1), j \in 0..(bound.len - 1) :
       /\ <<i, j>> \in SetPairs
       /\ Index(heap, bound, i) # Index(heap, bound, j)
       /\ heap' = [heap EXCEPT ![bound.arr].elems[bound.lo + i + 1] =
                                 Index(heap, bound, j)]
       /\ op' = [NoOp EXCEPT !.name = "Set", !.data = bound, !.row = i]
  /\ out' = NoOut
  /\ w' = NoW
  /\ UNCHANGED <<e, err, pc, bound, prev, made, rd>>

\* The calls of the caller who also assigns elements.
NextBorrow ==
  NewExtractor \/ Bind \/ Value \/ PrintColumn \/ CSVDump \/ TabDump \/ Set

SpecBorrow == Init /\ [][NextBorrow]_vars

\* C25: no call of NewExtractor, Bind, Value, Print or a Dump changes the
\* backing arrays, hence neither the length nor an element of a collection
\* nor data reachable from it, and the Extractor reads the collection it was
\* given and no copy: Value and Print work on the element as the collection
\* holds it at the time of the call, also after the caller assigned it.
CollectionIsBorrowed ==
  [][ /\ op'.name # "Set" => heap' = heap
      /\ op'.name \in {"NewExtractor", "Bind"} /\ pc' = "ready"
           => \A c \in 1..Len(e'.Columns) : e'.Columns[c].Value.v = op'.data
      /\ op'.name \in {"Value", "Print"}
           => out'.val =
                retrieve(heap'[bound'.arr].elems[bound'.lo + op'.row + 1],
                         e'.Columns[op'.col].access, e'.indir).val
    ]_vars

\* Value has returned the value of an element that the caller assigned
\* after NewExtractor, which is not the value the element had before.
CollectionIsBorrowedWitness ==
  /\ op.name = "Value"
  /\ prev = NoData
  /\ <<bound.arr, bound.lo + op.row + 1>> \in assigned(heap)
  /\ out.val # Absent
  /\ out.val # retrieve(arrays[bound.arr].elems[bound.lo + op.row + 1],
                        e.Columns[op.col].access, e.indir).val

(* ----------------------------------------------------------------------- *)
(* Concurrent readers of a bound Extractor.                                *)

\* The column specs of the Extractors that the readers share.
ReaderSpecs(typ) ==
  CASE typ = "[]*docS" -> {"A", "E.F", "E.M"}
    [] typ = "[]Some" -> {"Method2", "OtherP.Unix"}
    [] OTHER -> {}

\* The state after NewExtractor returned an Extractor for one to MaxCols
\* columns of a slice that is not empty.
InitReaders ==
  \E data \in {d \in Slices : d.len > 0 /\ ReaderSpecs(TypeOf(d)) # {}} :
    \E columnSpecs \in
         UNION {[1..n -> {chars(sp) : sp \in ReaderSpecs(TypeOf(data))}] :
                  n \in 1..MaxCols} :
      \E r \in {newExtractor(data, columnSpecs)} :
        /\ heap = arrays
        /\ e = r.ex
        /\ err = nil
        /\ pc = "ready"
        /\ bound = data
        /\ prev = NoData
        /\ op = [NoOp EXCEPT !.name = "NewExtractor", !.data = data,
                             !.specs = columnSpecs]
        /\ out = NoOut
        /\ w = NoW
        /\ made = madeOf(r.ex)
        /\ rd = [rdr \in Readers |-> idle]

\* A reader calls e.Columns[col].Value(row): the value function indexes the
\* slice it captured and retrieve follows the indirections of the element.
ReadStart ==
  /\ pc = "ready"
  /\ \E rdr \in Readers, col \in 1..Len(e.Columns) :
       LET f == e.Columns[col].Value
           element(row, el) ==
             rd' = [rd EXCEPT ![rdr] =
                      IF el.isNil
                        THEN [idle EXCEPT !.pc = "done", !.col = col,
                                          !.row = row, !.f = f]
                      ELSE [idle EXCEPT !.pc = "access", !.col = col,
                                        !.row = row, !.f = f, !.v = el.v,
                                        !.k = 1]]
       IN  /\ rd[rdr].pc = "idle"
           /\ \E row \in 0..(f.v.len - 1) :
                element(row, follow(Index(heap, f.v, row), e.indir))
  /\ UNCHANGED <<heap, e, err, pc, bound, prev, op, out, w, made>>

\* ReadStep as it would be if the value function of a column kept the value
\* that a step reaches in one place that all its calls share.
ReadStepSharedCursor ==
  /\ \E rdr \in Readers :
       LET me == rd[rdr]
           stepped(a) ==
             rd' = [x \in Readers |->
                      IF x = rdr
                        THEN IF a.err # nil THEN [me EXCEPT !.pc = "done"]
                             ELSE [me EXCEPT !.v = a.v, !.k = @ + 1]
                      ELSE IF /\ rd[x].pc = "access" /\ a.err = nil
                              /\ rd[x].col = me.col /\ rd[x].k = me.k + 1
                        THEN [rd[x] EXCEPT !.v = a.v]
                      ELSE rd[x]]
       IN  /\ me.pc = "access"
           /\ IF me.k > Len(me.f.access)
                THEN rd' = [rd EXCEPT ![rdr] =
                              [me EXCEPT !.pc = "done",
                                         !.val = typeSwitch(me.v)]]
              ELSE stepped(accessStep(me.v, me.f.access[me.k]))
  /\ UNCHANGED <<heap, e, err, pc, bound, prev, op, out, w, made>>

\* A reader's call takes its next step of access or, after the last, the
\* switch of retrieve.
ReadStep ==
  /\ \E rdr \in Readers :
       LET me == rd[rdr]
           stepped(a) ==
             rd' = [rd EXCEPT ![rdr] =
                      IF a.err # nil THEN [me EXCEPT !.pc = "done"]
                      ELSE [me EXCEPT !.v = a.v, !.k = @ + 1]]
       IN  /\ me.pc = "access"
           /\ IF me.k > Len(me.f.access)
                THEN rd' = [rd EXCEPT ![rdr] =
                              [me EXCEPT !.pc = "done",
                                         !.val = typeSwitch(me.v)]]
              ELSE stepped(accessStep(me.v, me.f.access[me.k]))
  /\ UNCHANGED <<heap, e, err, pc, bound, prev, op, out, w, made>>

\* A reader's call returns.
ReadReturn ==
  /\ \E rdr \in Readers :
       /\ rd[rdr].pc = "done"
       /\ rd' = [rd EXCEPT ![rdr] = idle]
  /\ UNCHANGED <<heap, e, err, pc, bound, prev, op, out, w, made>>

NextReaders == ReadStart \/ ReadStep \/ ReadReturn

SpecReaders == InitReaders /\ [][NextReaders]_vars

\* C24: a step of a Value call that runs concurrently with the calls of
\* other readers changes neither the Extractor, its Columns nor the
\* collection, and every call ends with the value that the same call
\* returns when it runs alone.
ReadersDoNotInterfere ==
  [][ /\ e' = e
      /\ heap' = heap
      /\ bound' = bound
      /\ \A rdr \in Readers :
           (rd[rdr].pc # "done" /\ rd'[rdr].pc = "done")
             => rd'[rdr].val = valueAt(rd'[rdr].col, rd'[rdr].row)
    ]_vars

\* One reader's call is done with a value while the call of another reader
\* for another cell is past its first step.
ReadersDoNotInterfereWitness ==
  \E r1 \in Readers, r2 \in Readers :
    /\ rd[r1].pc = "done"
    /\ rd[r1].val # Absent
    /\ rd[r2].pc = "access"
    /\ rd[r2].k > 1
    /\ <<rd[r1].col, rd[r1].row>> # <<rd[r2].col, rd[r2].row>>

\* C21: whenever Print is called on a cell for which the column's Value
\* returns absent, whatever the Type of the column, it returns the NA string
\* of the format the caller passed and does not panic.
AbsentPrintsNA ==
  (op.name = "Print" /\ valueAt(op.col, op.row) = Absent)
    => /\ pc = "ready"
       /\ ~w.panic
       /\ w.text = op.format.NA

\* Print with a format whose NA is not empty has met an absent cell of a
\* Bool column.
AbsentPrintsNAWitness ==
  /\ op.name = "Print"
  /\ out.val = Absent
  /\ e.Columns[op.col].Type = Bool
  /\ op.format.NA = "NA"
  /\ w.text = "NA"

\* What Print returns for row r of column c under the format of the last
\* call.
cell(r, c) == ColumnPrint(e.Columns[c], op.format, valueAt(c, r)).text

\* The records of a complete dump: the header unless it is omitted, then
\* the rows 0 to N-1 in increasing order, each with the cells in column
\* order.
allRecords ==
  (IF op.OmitHeader THEN <<>>
   ELSE <<[c \in 1..Len(e.Columns) |-> e.Columns[c].Name]>>)
    \o [r \in 1..e.N |-> [c \in 1..Len(e.Columns) |-> cell(r - 1, c)]]

\* C22: CSVDumper.Dump writes the header record with the column names
\* (unless OmitHeader is set) and then one record per row 0..N-1 in
\* increasing order, each with one cell per column in column order, the
\* cell being what the column's Print returns; with a writer that never
\* fails it writes all of them, flushes and returns nil, and when the write
\* of a data record fails it returns the error at once, with no later row
\* written and no Flush.
CSVDumpWritesRows ==
  op.name = "CSVDump" =>
    LET good == IF op.failAt = 0 \/ op.failAt > Len(allRecords)
                  THEN Len(allRecords) ELSE op.failAt - 1
    IN  /\ ~w.panic
        /\ w.records = SubSeq(allRecords, 1, good)
        /\ op.failAt = 0 => (w.err = nil /\ w.flushed)
        /\ (op.failAt # 0 /\ op.failAt <= Len(allRecords) /\ e.N > 0)
             => (w.err = errWrite /\ ~w.flushed)

\* A dump with a header of two rows and two columns that holds an NA cell
\* and a cell that is none.
CSVDumpWritesRowsWitness ==
  /\ op.name = "CSVDump"
  /\ ~op.OmitHeader
  /\ op.failAt = 0
  /\ Len(w.records) = 3
  /\ Len(e.Columns) = 2
  /\ w.records[1] = <<e.Columns[1].Name, e.Columns[2].Name>>
  /\ op.format.NA = "NA"
  /\ \E r \in 2..3 : \E c \in 1..2 :
       /\ w.records[r][c] = "NA"
       /\ w.records[5 - r][c] # "NA"

\* C23: with OmitHeader set, TabDumper.Dump writes exactly N lines, line r
\* holding the cells of row r - 1: no header line and no empty line in its
\* place.
TabDumpOmitsHeaderLine ==
  (op.name = "TabDump" /\ op.OmitHeader)
    => /\ Len(w.records) = e.N
       /\ \A r \in 1..Len(w.records) :
            r <= e.N =>
              w.records[r] = [c \in 1..Len(e.Columns) |-> cell(r - 1, c)]

(* ----------------------------------------------------------------------- *)
(* C26: the steps a spec compiles to.                                      *)

\* The number of pointer layers of a type.
RECURSIVE ptrLayers(_)
ptrLayers(t) == IF Kind(t) = "Ptr" THEN 1 + ptrLayers(Elem(t)) ELSE 0

\* A type below its pointer layers.
RECURSIVE belowPtr(_)
belowPtr(t) == IF Kind(t) = "Ptr" THEN belowPtr(Elem(t)) ELSE t

\* What the segments of a spec mean, read from the types alone: for each
\* segment from n on whether it names a field of the current type, the
\* index of that field and the pointer layers of its declared type.
RECURSIVE segmentsOf(_, _, _)
segmentsOf(typ, elements, n) ==
  IF n > Len(elements) THEN <<>>
  ELSE
    LET cur == elements[n]
        fs == IF Kind(typ) = "Struct" THEN goTypes(typ).Fields ELSE <<>>
        ms == goTypes(typ).Methods
        hits == {f \in 1..Len(fs) : fs[f].Name = cur}
        f1 == CHOOSE f \in hits : \A g \in hits : f <= g
        m == ms[CHOOSE k \in 1..Len(ms) : ms[k].Name = cur]
    IN  IF hits # {}
          THEN <<[isField |-> TRUE, index |-> f1 - 1,
                  layers |-> ptrLayers(fs[f1].Type)]>>
                 \o segmentsOf(belowPtr(fs[f1].Type), elements, n + 1)
          ELSE <<[isField |-> FALSE, index |-> 0, layers |-> 0]>>
                 \o segmentsOf(m.Out[1], elements, n + 1)

\* C26: a successful compile of a spec with k segments yields k steps, step
\* j named after segment j, a field step when the segment names a field of
\* the current type (fields are tried first) and a call step otherwise, a
\* field step holding the field's index and the number of pointer layers of
\* the field's declared type; and the test of the kind is made for the last
\* segment only: a compile that ends with the final-element error has met a
\* spec of which every segment resolves and whose last type has no value
\* kind.
StepsFollowSegments ==
  /\ (newForSlice /\ pc = "ready") =>
       /\ Len(e.Columns) = Len(op.specs)
       /\ \A k \in 1..Len(op.specs) :
            LET segs == Split(op.specs[k], ".")
                acc == e.Columns[k].access
                exp == segmentsOf(recordType, segs, 1)
            IN  /\ Len(segs) >= 1
                /\ Len(acc) = Len(segs)
                /\ \A j \in 1..Len(acc) :
                     /\ acc[j].name = segs[j]
                     /\ isMethodCall(acc[j]) = ~exp[j].isField
                     /\ exp[j].isField =>
                          /\ acc[j].field = exp[j].index
                          /\ acc[j].indir = exp[j].layers
                     /\ ~exp[j].isField =>
                          /\ acc[j].method.name = segs[j]
                          /\ acc[j].indir = 0
  /\ (newForSlice /\ pc = "failed"
        /\ err \in {errFinalField, errFinalMethod}) =>
       \E k \in 1..Len(op.specs) :
         /\ \A j \in 1..(k-1) : specIsGood(j)
         /\ specWalk(k).ok
         /\ superType(specWalk(k).typ) = NA

\* NewExtractor compiled a spec of two segments through a field of struct
\* type to a field behind one pointer, next to a spec that ends in a call
\* or in a field behind two pointers.
StepsFollowSegmentsWitness ==
  /\ newForSlice
  /\ pc = "ready"
  /\ Len(e.Columns) = 2
  /\ \E c \in 1..2 :
       LET acc == e.Columns[c].access
           other == e.Columns[3 - c].access
       IN  /\ Len(acc) = 2
           /\ ~isMethodCall(acc[1])
           /\ superType(acc[1].typ) = NA
           /\ ~isMethodCall(acc[2])
           /\ acc[2].indir = 1
           /\ \/ isMethodCall(other[Len(other)])
              \/ other[Len(other)].indir = 2

(* ----------------------------------------------------------------------- *)
(* C27: values have the representation of the column's Type.               *)

\* The Go type of the values of a column of the given Type.
representation(type) ==
  CASE type = Bool -> "bool"
    [] type = IntT -> "int64"
    [] type = Float -> "float64"
    [] type = String -> "string"
    [] type = Time -> "time.Time"
    [] OTHER -> "none"

\* C27: every column of an Extractor has one of the five Types, the Value of
\* every column at every row of the bound collection is either absent or a
\* value of the Go type that belongs to the column's Type, and so is what
\* Value and Print got; Print neither fails in a type assertion nor falls
\* through its switch.
ValueHasColumnType ==
  /\ pc = "ready" =>
       \A c \in 1..Len(e.Columns) :
         /\ e.Columns[c].Type \in {Bool, IntT, Float, String, Time}
         /\ \A i \in 0..(e.N - 1) :
              \/ valuesOf(e, heap, c)[i] = Absent
              \/ TypeOf(valuesOf(e, heap, c)[i])
                   = representation(e.Columns[c].Type)
  /\ (op.name \in {"Value", "Print"} /\ out.val # Absent) =>
       TypeOf(out.val) = representation(e.Columns[op.col].Type)
  /\ op.name = "Print" => (~w.panic /\ pc = "ready")

\* Print printed a value of an Int column whose path ends at a type other
\* than int64.
ValueHasColumnTypeWitness ==
  /\ op.name = "Print"
  /\ out.val # Absent
  /\ e.Columns[op.col].Type = IntT
  /\ LET acc == e.Columns[op.col].access
     IN  acc[Len(acc)].typ # "int64"
  /\ TypeOf(out.val) = "int64"
  /\ ~w.panic

(* ----------------------------------------------------------------------- *)
(* C28: a path through an accessor that returns a pointer.                 *)

\* C28: the spec "E.N.G" on a slice of *S, where N returns (*U, error),
\* compiles: NewExtractor given it, next to specs that compile, returns an
\* Extractor with a column of three steps and no error.
PathThroughPointerResult ==
  ( /\ newForSlice
    /\ TypeOf(op.data) = "[]*docS"
    /\ \E k \in 1..Len(op.specs) : op.specs[k] = "E.N.G"
    /\ \A k \in 1..Len(op.specs) :
         op.specs[k] = "E.N.G" \/ specIsGood(k) )
    => /\ pc = "ready"
       /\ err = nil
       /\ \A k \in 1..Len(op.specs) :
            op.specs[k] = "E.N.G" => Len(e.Columns[k].access) = 3

(* ----------------------------------------------------------------------- *)
(* C29: MayFail as an indicator of absence.                                *)

\* C29: a column whose MayFail is false has a value at every row of every
\* bound collection: Value is never absent for it.
MayFailIsSound ==
  pc = "ready" =>
    \A c \in 1..Len(e.Columns) :
      ~e.Columns[c].MayFail =>
        \A i \in 0..(e.N - 1) : valuesOf(e, heap, c)[i] # Absent

(* ----------------------------------------------------------------------- *)
(* C30: a caller who reorders and drops columns.                           *)

\* The sequence s with its elements i and j exchanged, and without its
\* element i.
exchanged(s, i, j) == [s EXCEPT ![i] = s[j], ![j] = s[i]]
without(s, i) == SubSeq(s, 1, i - 1) \o SubSeq(s, i + 1, Len(s))

\* e.Columns[i], e.Columns[j] = e.Columns[j], e.Columns[i], i and j counted
\* from 1
Swap ==
  /\ pc = "ready"
  /\ \E i \in 1..Len(e.Columns), j \in 1..Len(e.Columns) :
       /\ i < j
       /\ op' = [NoOp EXCEPT !.name = "Swap", !.col = i]
       /\ e' = [e EXCEPT !.Columns = exchanged(@, i, j)]
       /\ made' = [made EXCEPT !.at = exchanged(@, i, j)]
  /\ out' = NoOut
  /\ w' = NoW
  /\ UNCHANGED <<heap, err, pc, bound, prev, rd>>

\* e.Columns = append(e.Columns[:i], e.Columns[i+1:]...), i counted from 1
Drop ==
  /\ pc = "ready"
  /\ \E i \in 1..Len(e.Columns) :
       /\ op' = [NoOp EXCEPT !.name = "Drop", !.col = i]
       /\ e' = [e EXCEPT !.Columns = without(@, i)]
       /\ made' = [made EXCEPT !.at = without(@, i)]
  /\ out' = NoOut
  /\ w' = NoW
  /\ UNCHANGED <<heap, err, pc, bound, prev, rd>>

\* The calls of the caller who also reorders and drops columns.
NextEdit == NewExtractor \/ Bind \/ Value \/ Swap \/ Drop

SpecEdit == Init /\ [][NextEdit]_vars

\* C30: after a Bind that follows any exchanges and drops of columns, N is
\* the length of the collection bound, and every column that remains, at
\* the place where it now is, has at every row the value that the path
\* NewExtractor compiled for this column yields for that element of the new
\* collection; the column also kept its Type and MayFail.
BindFollowsColumns ==
  (op.name = "Bind" /\ pc = "ready") =>
    /\ e.N = op.data.len
    /\ bound = op.data
    /\ Len(e.Columns) = Len(made.at)
    /\ \A c \in 1..Len(e.Columns) :
         LET path == made.paths[made.at[c]]
         IN  /\ e.Columns[c].Type = newColumn(path).Type
             /\ e.Columns[c].MayFail = newColumn(path).MayFail
             /\ \A i \in 0..(e.N - 1) :
                  valuesOf(e, heap, c)[i]
                    = retrieve(Index(heap, op.data, i), path, e.indir).val

\* A Bind of another collection with a row after the two columns were
\* exchanged, the columns having different values in that row.
BindFollowsColumnsWitness ==
  /\ op.name = "Bind"
  /\ pc = "ready"
  /\ e.N > 0
  /\ Len(made.paths) = 2
  /\ made.paths[1] # made.paths[2]
  /\ made.at = <<2, 1>>
  /\ valuesOf(e, heap, 1)[0] # valuesOf(e, heap, 2)[0]
  /\ bound # prev

====
